---- MODULE Spec2Model ----
(***************************************************************************)
(* Model of the Hex workbook migration engine                              *)
(* (src/hex_migrate_redshift_to_databricks.py).                            *)
(*                                                                         *)
(* transform_hex_yaml is modelled as a sequential process: Call (deep copy *)
(* and resolution of the source-connection set), one step per cell of the  *)
(* loop, Finish (document default id, shared-asset list, return).  A step  *)
(* of the loop may raise; the exception leaves transform_hex_yaml and no   *)
(* document is returned.  A second run on the returned document models the *)
(* caller feeding the output back in.                                      *)
(*                                                                         *)
(* Python values are encoded as strings so that values of different Python *)
(* types can be compared: Absent is a missing key (dict.get gives None),   *)
(* PyTrue/PyFalse are the bool values, Py1/Py0 the integers 1 and 0.       *)
(* A SQL text is the sequence of its lexemes, in order: a run of word       *)
(* characters, a single other character (" ", "\n", ".", "(", ...), or a    *)
(* comment block the program inserts; NoText is a missing text (None).     *)
(*                                                                         *)
(* apply_sql_rewrites is modelled a second time as a process of its own,   *)
(* one step per pass, on a text and the mapping in SCHEMA_MAP (SpecSql);   *)
(* rewrite_complex_functions likewise on texts that hold DATEADD and       *)
(* DATEDIFF calls (SpecCalls).  The two loaders of the module-level        *)
(* mappings run on a CSV file, one step per line read (SpecLoad).          *)
(***************************************************************************)
EXTENDS Integers, Sequences, FiniteSets, TLC

VARIABLES
    SCHEMA_MAP,          \* module-level table mapping, loaded once
    heap,                \* document objects, by reference (1..Len(heap))
    docRef,              \* the caller's document (argument doc)
    dRef,                \* the working document d (0 before the call)
    databricks_conn_id,  \* argument: target connection id
    srcArg,              \* argument redshift_conn_ids as passed
    redshift_conn_ids,   \* the set in force inside the call
    i,                   \* loop position in d["cells"] (1-based)
    rewrote_cells,       \* the counter
    pc,                  \* "start" | "loop" | "done" | "raised"
    run,                 \* 1: first run, 2: run on the first run's output
    original,            \* value of the caller's document when the call began
    processed,           \* indices of the cells that passed should_process
    first,               \* what the first run returned (document value, count)
    ret,                 \* what the current run returned
    sqlArg,              \* argument sql of apply_sql_rewrites / rewrite_complex_functions
    outText,             \* their local `out`: the text so far (NoText: None)
    stage,               \* the pass that runs next, "returned", "raised" or "idle"
    FUNCTION_MAPPINGS,   \* module-level function mapping, loaded once
    csvFile,             \* the file behind the argument csv_path of a loader
    loading,             \* the loader that runs: "schema", "function" or "none"
    lpc,                 \* where the loader is; "returned", "raised" or "idle"
    fieldnames,          \* reader.fieldnames (NoFields: None)
    rowAt,               \* the line of the file the reader gives next (1-based)
    schema_map,          \* local of load_schema_mappings
    function_mappings,   \* local of load_function_mappings
    exc,                 \* the exception that was raised inside the try block
    batchMode,           \* the batch path: "cli", "zip" or "streamlit"
    files,               \* the documents of the batch, in the order of the loop
    fileAt,              \* the document the loop is at (1-based)
    converted,           \* the documents that were transformed and saved
    errors,              \* the documents whose failure was caught and logged
    bpc,                 \* "loop", "finished", "terminated" or "idle"
    scanName,            \* the scanner: "dateadd" (replace_dateadd) or "datediff"
    scanCase,            \* how the argument text was put together (not program state)
    scanText,            \* argument text of the scanner
    scanAt,              \* its local i, as a position in the text (1-based)
    scanResult,          \* ''.join(result) so far
    scanArgs,            \* its local args: the arguments of the last complete call
    spc,                 \* "loop", "done" or "idle"
    workers,             \* the calls of transform_hex_yaml under way, one per thread
    objects              \* the document objects of the process, by reference

\* the state of a call of transform_hex_yaml
docVars == <<heap, docRef, dRef, databricks_conn_id, srcArg, redshift_conn_ids,
             i, rewrote_cells, pc, run, original, processed, first, ret>>

\* the state of a call of apply_sql_rewrites or rewrite_complex_functions
sqlVars == <<sqlArg, outText, stage>>

\* the state of a call of load_schema_mappings or load_function_mappings
loadVars == <<FUNCTION_MAPPINGS, csvFile, loading, lpc, fieldnames, rowAt,
              schema_map, function_mappings, exc>>

\* the state of a batch run
batchVars == <<batchMode, files, fileAt, converted, errors, bpc>>

\* the state of a call of replace_dateadd or replace_datediff
scanVars == <<scanName, scanCase, scanText, scanAt, scanResult, scanArgs, spc>>

\* the state of concurrent calls of transform_hex_yaml in one process
parVars == <<workers, objects>>

vars == <<SCHEMA_MAP, docVars, sqlVars, loadVars, batchVars, scanVars, parVars>>

-----------------------------------------------------------------------------
(* Bounds of the model *)

MaxCells == 2      \* cells per document under Spec
MaxDocCells == 1   \* cells per document under SpecDoc
MaxConns == 2      \* entries of sharedAssets.dataConnections under SpecDoc

-----------------------------------------------------------------------------
(* Python values *)

Absent == "<absent>"
PyTrue == "py:True"
PyFalse == "py:False"
Py1 == "py:1"
Py0 == "py:0"

\* bool(v) for the scalar values of the model
Truthy(v) == v \notin {Absent, "", PyFalse, Py0}

\* isinstance(v, bool)
IsBool(v) == v \in {PyTrue, PyFalse}

\* v in (True, False): Python compares with ==, and 1 == True, 0 == False
InTrueFalse(v) == v \in {PyTrue, PyFalse, Py1, Py0}

NoText == <<Absent>>

\* isinstance(t, str) for a text value
IsStr(t) == t # NoText

\* bool(t) for a text value: None and "" are falsy
TruthyText(t) == t # NoText /\ t # <<>>

\* a or b
PyOr(a, b) == IF Truthy(a) THEN a ELSE b
PyOrText(a, b) == IF TruthyText(a) THEN a ELSE b

\* str.upper() / str.lower() on the strings of the model
Upper(s) ==
    CASE s = "sql" -> "SQL"
      [] s = "data" -> "DATA"
      [] s = "input" -> "INPUT"
      [] s = "code" -> "CODE"
      [] OTHER -> s

Lower(s) ==
    CASE s = "PROD" -> "prod"
      [] s = "PROD_mart" -> "prod_mart"
      [] s = "ORDERS" -> "orders"
      [] s = "Staging" -> "staging"
      [] s = "Raw_GitHub" -> "raw_github"
      [] s = "DATEADD" -> "dateadd"
      [] s = "DATEDIFF" -> "datediff"
      [] s = "DAY" -> "day"
      [] s = "HOUR" -> "hour"
      [] s = "Week" -> "week"
      [] s = "QUALIFY" -> "qualify"
      [] s = "ROW_NUMBER" -> "row_number"
      [] s = "RANK" -> "rank"
      [] s = "OVER" -> "over"
      [] s = "NVL" -> "nvl"
      [] s = "SUPER" -> "super"
      [] s = "STRING" -> "string"
      [] s = "COALESCE" -> "coalesce"
      [] s = "Redshift Table" -> "redshift table"
      [] s = "Databricks Table" -> "databricks table"
      [] s = "Redshift Database" -> "redshift database"
      [] s = "Redshift Schema" -> "redshift schema"
      [] s = "Databricks Catalog" -> "databricks catalog"
      [] s = "Databricks Schema" -> "databricks schema"
      [] s = "SNO" -> "sno"
      [] s = "Redshift Function" -> "redshift function"
      [] s = "Purpose" -> "purpose"
      [] s = "Databricks Equivalent" -> "databricks equivalent"
      [] s = "Function mapping sheet" -> "function mapping sheet"
      [] OTHER -> s

-----------------------------------------------------------------------------
(* Connection ids *)

DefaultId1 == "e2694948-2c20-47d3-b127-71448e2bf238"
DefaultId2 == "0d0da619-5aa7-4f55-b020-ba94bfa77917"
DefaultId3 == "63ebcea0-017f-4bcf-b58a-a2340a75845f"
DefaultRedshiftIds == {DefaultId1, DefaultId2, DefaultId3}

RS == "rs-custom"      \* a source id the caller names
DBX == "dbx-target"    \* the target id
PG == "pg-other"       \* an id that is neither

\* the argument redshift_conn_ids: omitted (None) or a list of ids
Omitted == [given |-> FALSE, ids |-> {}]
Given(S) == [given |-> TRUE, ids |-> S]

-----------------------------------------------------------------------------
(* SQL texts, as token sequences *)

LegacyHeader ==
    "-- TODO(manual): Legacy table references detected - verify schema/catalog mapping in Databricks\n-- TIP: Use SHOW TABLES to verify table existence and correct names\n"

\* the QUALIFY header block, without its line end
QualifyHeader == "-- TODO(manual): Translate QUALIFY to WHERE with window subquery"

\* the comment auto_fix_databricks_issues puts in place of a converted clause,
\* in front of and behind the copied ROW_NUMBER() OVER (...)
ConvertedPrefix == "-- Converted from QUALIFY: Add this as WHERE "
ConvertedSuffix == " = 1 in subquery"

\* the comment of add_comprehensive_function_mappings
ComprehensiveTodo ==
    "-- TODO: Rewrite QUALIFY as WHERE ROW_NUMBER() OVER (...) = 1 in subquery"

\* the line add_inline_warnings_to_sql puts under a line that holds QUALIFY
\* (its cross-mark character is written [x])
InlineQualify == "    -- [x] ERROR: QUALIFY not supported - rewrite using window functions"

CommentBlocks ==
    {LegacyHeader, QualifyHeader, ConvertedPrefix, ConvertedSuffix,
     ComprehensiveTodo, InlineQualify}

Punct == {" ", "\n", ".", "(", ")", ",", "-", "=", "*"}

\* [A-Za-z0-9_]+
IsWord(t) == t # "" /\ t \notin Punct /\ t \notin CommentBlocks

\* \s
IsSpace(t) == t \in {" ", "\n"}

\* \d+
IsDigits(t) == t \in {"1", "2", "5", "7", "10"}

\* the token at position k, "" past either end
Tok(text, k) == IF k \in 1..Len(text) THEN text[k] ELSE ""

\* the first position at or after k that holds no white space
RECURSIVE SkipWs(_, _)
SkipWs(text, k) ==
    IF k <= Len(text) /\ IsSpace(text[k]) THEN SkipWs(text, k + 1) ELSE k

\* the first position at or after k that holds token c, 0 when there is none
RECURSIVE FirstAt(_, _, _)
FirstAt(text, k, c) ==
    IF k > Len(text) THEN 0
    ELSE IF text[k] = c THEN k
    ELSE FirstAt(text, k + 1, c)

\* does `part` stand in `text`, element for element
Contains(text, part) ==
    \E k \in 0..(Len(text) - Len(part)) : SubSeq(text, k + 1, k + Len(part)) = part

\* str.strip()
RECURSIVE Strip(_)
Strip(s) ==
    IF s = <<>> THEN s
    ELSE IF IsSpace(Head(s)) THEN Strip(Tail(s))
    ELSE IF IsSpace(s[Len(s)]) THEN Strip(SubSeq(s, 1, Len(s) - 1))
    ELSE s

\* str.lower() on a text
LowerText(s) == [k \in 1..Len(s) |-> Lower(s[k])]

\* number of characters of a token (the keys of SCHEMA_MAP are sorted by len)
TokLen(t) ==
    CASE t = "." -> 1
      [] t \in {"orders", "ORDERS"} -> 6
      [] t \in {"staging", "Staging"} -> 7
      [] OTHER -> 4

RECURSIVE CharLen(_)
CharLen(s) == IF s = <<>> THEN 0 ELSE TokLen(Head(s)) + CharLen(Tail(s))

\* re.search(r'\bprod\.[A-Za-z0-9_]+\.[A-Za-z0-9_]+', text, re.IGNORECASE)
MatchesProdDotted(text) ==
    \E k \in 1..Len(text) :
        /\ k + 4 <= Len(text)
        /\ Lower(text[k]) = "prod"
        /\ text[k + 1] = "."
        /\ IsWord(text[k + 2])
        /\ text[k + 3] = "."
        /\ IsWord(text[k + 4])

\* identifiers that read prod_<word> when lower-cased
IsProdUnderscore(t) == Lower(t) \in {"prod_mart", "prod_mart_sales"}

\* re.search(r'\bprod_[A-Za-z0-9_]+\.[A-Za-z0-9_]+', text, re.IGNORECASE)
MatchesProdUnderscore(text) ==
    \E k \in 1..Len(text) :
        /\ k + 2 <= Len(text)
        /\ IsProdUnderscore(text[k])
        /\ text[k + 1] = "."
        /\ IsWord(text[k + 2])

\* re.search(r'\braw_[A-Za-z0-9_]+\.[A-Za-z0-9_]+', ...)
MatchesRawUnderscore(text) ==
    \E k \in 1..Len(text) :
        /\ k + 2 <= Len(text)
        /\ Lower(text[k]) \in {"raw_x", "raw_github"}
        /\ text[k + 1] = "."
        /\ IsWord(text[k + 2])

\* re.search(r'\bstaging\.[A-Za-z0-9_]+\.[A-Za-z0-9_]+', ...)
MatchesStagingDotted(text) ==
    \E k \in 1..Len(text) :
        /\ k + 4 <= Len(text)
        /\ Lower(text[k]) = "staging"
        /\ text[k + 1] = "."
        /\ IsWord(text[k + 2])
        /\ text[k + 3] = "."
        /\ IsWord(text[k + 4])

\* the legacy-catalog heuristic of transform_hex_yaml
LegacyHeuristic(text) == MatchesProdDotted(text) \/ MatchesProdUnderscore(text)

-----------------------------------------------------------------------------
(* The table mapping and the rewrite pipeline *)

\* get_hardcoded_schema_map(): keys are (database, schema) pairs; four of its
\* entries (a concrete target schema, the wildcard, the prod_<schema> form, a
\* target schema of None)
HardcodedSchemaMap ==
    [kind |-> "pair",
     table |-> <<>>,
     pairs |-> { [db |-> "prod", sch |-> "raw_github",
                  cat |-> "source", new_sch |-> "github"],
                 [db |-> "prod", sch |-> "archive",
                  cat |-> "archive", new_sch |-> "*"],
                 [db |-> "prod", sch |-> "prod_mart_sales",
                  cat |-> "mart", new_sch |-> "sales"],
                 [db |-> "prod", sch |-> "events",
                  cat |-> "tracked_features_events", new_sch |-> Absent] }]

\* a table-to-table mapping loaded from a CSV with the columns
\* Redshift Table / Databricks Table, in file order
TableSchemaMap ==
    [kind |-> "table",
     table |-> << [src |-> <<"orders">>, dst |-> <<"main", ".", "orders">>],
                  [src |-> <<"staging", ".", "orders">>,
                   dst |-> <<"cat", ".", "stg", ".", "orders">>] >>,
     pairs |-> {}]

\* SCHEMA_MAP and isinstance(next(iter(SCHEMA_MAP.keys())), str)
IsTableFormat(map) == map.kind = "table" /\ Len(map.table) > 0

\* does key match text at position k, ignoring case
MatchAt(text, k, key) ==
    /\ k + Len(key) - 1 <= Len(text)
    /\ \A j \in 1..Len(key) : Lower(text[k + j - 1]) = Lower(key[j])

\* re.sub(rf'\b{key}\b', target, text, flags=re.IGNORECASE): left to right,
\* non-overlapping, the inserted text is not scanned again
RECURSIVE SubFrom(_, _, _, _)
SubFrom(text, k, key, target) ==
    IF k > Len(text) THEN <<>>
    ELSE IF MatchAt(text, k, key)
         THEN target \o SubFrom(text, k + Len(key), key, target)
         ELSE <<text[k]>> \o SubFrom(text, k + 1, key, target)

\* sorted(SCHEMA_MAP.items(), key=lambda x: -len(x[0])): stable insertion sort
RECURSIVE InsertByLen(_, _)
InsertByLen(e, s) ==
    IF s = <<>> THEN <<e>>
    ELSE IF CharLen(Head(s).src) < CharLen(e.src)
         THEN <<e>> \o s
         ELSE <<Head(s)>> \o InsertByLen(e, Tail(s))

RECURSIVE SortedMappings(_)
SortedMappings(s) ==
    IF s = <<>> THEN <<>>
    ELSE InsertByLen(s[Len(s)], SortedMappings(SubSeq(s, 1, Len(s) - 1)))

\* rewrite_table_references: one entry after the other, each on the output of
\* the one before (the quoted patterns need quote characters, which the texts
\* of the model do not hold)
RECURSIVE ApplyMappings(_, _)
ApplyMappings(text, entries) ==
    IF entries = <<>> THEN text
    ELSE ApplyMappings(SubFrom(text, 1, Head(entries).src, Head(entries).dst),
                       Tail(entries))

rewrite_table_references(sql, map) == ApplyMappings(sql, SortedMappings(map.table))

\* is the pair (db, sch) a key of the mapping
PairMapped(map, db, sch) == \E e \in map.pairs : e.db = db /\ e.sch = sch

\* f"{cat}" or f"{cat}.{new_sch}" for the pair (db, sch)
PairTarget(map, db, sch) ==
    LET e == CHOOSE x \in map.pairs : x.db = db /\ x.sch = sch
    IN  IF e.new_sch \in {Absent, "*"} THEN <<e.cat>> ELSE <<e.cat, ".", e.new_sch>>

\* \b([A-Za-z0-9_]+)\.([A-Za-z0-9_]+)(\.[A-Za-z0-9_`"]+) at position k
IsQualified3(text, k) ==
    /\ IsWord(Tok(text, k))
    /\ Tok(text, k + 1) = "."
    /\ IsWord(Tok(text, k + 2))
    /\ Tok(text, k + 3) = "."
    /\ IsWord(Tok(text, k + 4))

\* pattern.sub(repl, sql)
RECURSIVE SubPairs(_, _, _)
SubPairs(text, k, map) ==
    IF k > Len(text) THEN <<>>
    ELSE IF IsQualified3(text, k)
         THEN (IF PairMapped(map, Lower(text[k]), Lower(text[k + 2]))
               THEN PairTarget(map, Lower(text[k]), Lower(text[k + 2]))
                        \o <<".", text[k + 4]>>
               ELSE SubSeq(text, k, k + 4))
              \o SubPairs(text, k + 5, map)
         ELSE <<text[k]>> \o SubPairs(text, k + 1, map)

\* pattern_underscore.sub(repl_underscore, out): the key is
\* (db.lower(), f"{db.lower()}_{sch.lower()}"), the identifier lower-cased
RECURSIVE SubUnderscore(_, _, _)
SubUnderscore(text, k, map) ==
    IF k > Len(text) THEN <<>>
    ELSE IF /\ IsProdUnderscore(text[k])
            /\ Tok(text, k + 1) = "."
            /\ IsWord(Tok(text, k + 2))
         THEN (IF PairMapped(map, "prod", Lower(text[k]))
               THEN PairTarget(map, "prod", Lower(text[k])) \o <<".", text[k + 2]>>
               ELSE SubSeq(text, k, k + 2))
              \o SubUnderscore(text, k + 3, map)
         ELSE <<text[k]>> \o SubUnderscore(text, k + 1, map)

\* the value of the local `out` of rewrite_schema_qualification when its
\* schema-pair branch reaches the end of the function
PairSubstitution(sql, map) == SubUnderscore(SubPairs(sql, 1, map), 1, map)

\* rewrite_schema_qualification: the schema-pair branch computes `out` and
\* falls off the end of the function, so the call evaluates to None
rewrite_schema_qualification(sql, map) ==
    IF IsTableFormat(map) THEN rewrite_table_references(sql, map) ELSE NoText

\* QUALIFY\s+(ROW_NUMBER\(\)\s+OVER\s*\([^)]+\))\s*=\s*1 at position k: where
\* the group starts and ends and where the 1 stands; `ones` are the tokens the
\* final 1 may be the start of
QualifyShape(text, k, ones) ==
    LET a == SkipWs(text, k + 1)
        b == SkipWs(text, a + 3)
        c == SkipWs(text, b + 1)
        d == FirstAt(text, c + 1, ")")
        e == SkipWs(text, d + 1)
        f == SkipWs(text, e + 1)
    IN  [ok |-> /\ Lower(Tok(text, k)) = "qualify"
                /\ a > k + 1
                /\ Lower(Tok(text, a)) = "row_number"
                /\ Tok(text, a + 1) = "("
                /\ Tok(text, a + 2) = ")"
                /\ b > a + 3
                /\ Lower(Tok(text, b)) = "over"
                /\ Tok(text, c) = "("
                /\ d > c + 1
                /\ Tok(text, e) = "="
                /\ Tok(text, f) \in ones,
         from |-> a, to |-> d, one |-> f]

\* what is left of the token that starts with the final 1
AfterOne(t) == IF t = "10" THEN <<"0">> ELSE <<>>

\* re.sub(qualify_pattern, replace_qualify, out): the pattern ends with 1\b
RECURSIVE convert_qualify(_, _)
convert_qualify(text, k) ==
    IF k > Len(text) THEN <<>>
    ELSE LET m == QualifyShape(text, k, {"1"})
         IN  IF m.ok
             THEN <<ConvertedPrefix>> \o SubSeq(text, m.from, m.to)
                      \o <<ConvertedSuffix>> \o convert_qualify(text, m.one + 1)
             ELSE <<text[k]>> \o convert_qualify(text, k + 1)

\* re.sub(r'\bSUPER\b', 'STRING', ...)
type_synonyms(sql) ==
    [k \in 1..Len(sql) |-> IF sql[k] = "SUPER" THEN "STRING" ELSE sql[k]]

\* auto_fix_databricks_issues: the type synonyms, then the QUALIFY conversion
\* (the other substitutions and the remaining_warnings need MOD, CAST, PIVOT,
\* ..., which the texts of the model do not hold)
auto_fix_databricks_issues(sql) == convert_qualify(type_synonyms(sql), 1)

\* apply_csv_function_mappings: only a VARCHAR entry of FUNCTION_MAPPINGS
\* changes a text, and the texts of the model hold no VARCHAR; None is
\* handed on
apply_csv_function_mappings(sql) == sql

\* add_comprehensive_function_mappings, its QUALIFY pattern (no \b behind
\* the 1)
RECURSIVE add_comprehensive_function_mappings(_, _)
add_comprehensive_function_mappings(text, k) ==
    IF k > Len(text) THEN <<>>
    ELSE LET m == QualifyShape(text, k, {"1", "10"})
         IN  IF m.ok
             THEN <<ComprehensiveTodo>> \o AfterOne(text[m.one])
                      \o add_comprehensive_function_mappings(text, m.one + 1)
             ELSE <<text[k]>> \o add_comprehensive_function_mappings(text, k + 1)

\* SQL_SIMPLE_REWRITES: re.sub(r'\bNVL\s*\(', 'COALESCE(', ...)
RECURSIVE simple_rewrites(_, _)
simple_rewrites(text, k) ==
    IF k > Len(text) THEN <<>>
    ELSE IF Lower(text[k]) = "nvl" /\ Tok(text, SkipWs(text, k + 1)) = "("
         THEN <<"COALESCE", "(">> \o simple_rewrites(text, SkipWs(text, k + 1) + 1)
         ELSE <<text[k]>> \o simple_rewrites(text, k + 1)

\* re.search(r'\bNAME\s*\(', text[i:], re.IGNORECASE): where the first match
\* at or after i starts, 0 when there is none
FindCall(text, k, name) ==
    LET find[at \in Nat] ==
            IF at > Len(text) THEN 0
            ELSE IF Lower(text[at]) = name /\ Tok(text, SkipWs(text, at + 1)) = "("
                 THEN at
                 ELSE find[at + 1]
    IN  find[k]

\* the loop  while j < len(text) and paren_count > 0
CloseFrom(text, j, paren_count) ==
    LET walk[at \in Nat, depth \in Int] ==
            IF at > Len(text) \/ depth = 0
            THEN [j |-> at, paren_count |-> depth]
            ELSE walk[at + 1,
                      IF text[at] = "(" THEN depth + 1
                      ELSE IF text[at] = ")" THEN depth - 1
                      ELSE depth]
    IN  walk[j, paren_count]

\* the split at every comma, whatever the parenthesis depth
SplitAtEveryComma(inner_args, k, paren_depth, current_arg) ==
    LET split[at \in Nat, cur \in Seq(STRING)] ==
            IF at > Len(inner_args)
            THEN (IF cur # <<>> THEN <<Strip(cur)>> ELSE <<>>)
            ELSE IF inner_args[at] = ","
            THEN <<Strip(cur)>> \o split[at + 1, <<>>]
            ELSE split[at + 1, Append(cur, inner_args[at])]
    IN  split[k, current_arg]

\* the split of inner_args at the commas outside parentheses; what follows the
\* last comma is an argument only if it is not empty
SplitArgs(inner_args, k, paren_depth, current_arg) ==
    LET split[at \in Nat, depth \in Int, cur \in Seq(STRING)] ==
            IF at > Len(inner_args)
            THEN (IF cur # <<>> THEN <<Strip(cur)>> ELSE <<>>)
            ELSE IF inner_args[at] = "("
            THEN split[at + 1, depth + 1, Append(cur, "(")]
            ELSE IF inner_args[at] = ")"
            THEN split[at + 1, depth - 1, Append(cur, ")")]
            ELSE IF inner_args[at] = "," /\ depth = 0
            THEN <<Strip(cur)>> \o split[at + 1, depth, <<>>]
            ELSE split[at + 1, depth, Append(cur, inner_args[at])]
    IN  split[k, paren_depth, current_arg]

\* re.fullmatch(r'-\s*\d+', n)
IsNegativeLiteral(n) ==
    /\ Len(n) >= 2
    /\ n[1] = "-"
    /\ IsDigits(n[Len(n)])
    /\ \A k \in 2..(Len(n) - 1) : IsSpace(n[k])

\* re.sub(r'\s+', '', n)[1:]
NClean(n) == <<n[Len(n)]>>

\* f"{name}({a}, {b})"
Call2(name, a, b) == <<name, "(">> \o a \o <<",", " ">> \o b \o <<")">>

\* f"{name}({a}, {b}, {c})"
Call3(name, a, b, c) ==
    <<name, "(">> \o a \o <<",", " ">> \o b \o <<",", " ">> \o c \o <<")">>

Times7 == <<" ", "*", " ", "7">>

\* the replacement of replace_dateadd for a call with three or more arguments
dateadd_replacement(args) ==
    LET part == LowerText(args[1])
        n == Strip(args[2])
        expr == Strip(args[3])
    IN  IF part \in {<<"day">>, <<"days">>}
        THEN (IF IsNegativeLiteral(n)
              THEN Call2("date_sub", expr, NClean(n))
              ELSE Call2("date_add", expr, n))
        ELSE IF part \in {<<"week">>, <<"weeks">>}
        THEN (IF IsNegativeLiteral(n)
              THEN Call2("date_sub", expr, NClean(n) \o Times7)
              ELSE Call2("date_add", expr, n \o Times7))
        ELSE IF part \in {<<"month">>, <<"months">>}
        THEN Call2("add_months", expr, n)
        ELSE Call3("DATEADD", part, n, expr)

\* the replacement of replace_datediff for a call with three or more arguments
datediff_replacement(args) ==
    LET part == LowerText(args[1])
        d1 == Strip(args[2])
        d2 == Strip(args[3])
    IN  IF part \in {<<"day">>, <<"days">>}
        THEN Call2("datediff", d2, d1)
        ELSE Call3("DATEDIFF", part, d1, d2)

\* the loop  while i < len(text)  of replace_dateadd and of replace_datediff
\* from i = at; the two differ in the name they look for and in the replacement
RECURSIVE ScanCalls(_, _, _)
ScanCalls(text, at, name) ==
    IF at > Len(text) THEN <<>>
    ELSE LET start_pos == FindCall(text, at, name)
             paren_pos == SkipWs(text, start_pos + 1)
             c == CloseFrom(text, paren_pos + 1, 1)
             args == SplitArgs(SubSeq(text, paren_pos + 1, c.j - 2), 1, 0, <<>>)
         IN  IF start_pos = 0
             THEN SubSeq(text, at, Len(text))
             ELSE SubSeq(text, at, start_pos - 1) \o
                  (IF c.paren_count = 0
                   THEN (IF Len(args) >= 3
                         THEN (IF name = "dateadd"
                               THEN dateadd_replacement(args)
                               ELSE datediff_replacement(args))
                         ELSE SubSeq(text, start_pos, c.j - 1))
                        \o ScanCalls(text, c.j, name)
                   ELSE SubSeq(text, start_pos, paren_pos)
                        \o ScanCalls(text, paren_pos + 1, name))

replace_dateadd(text) == ScanCalls(text, 1, "dateadd")

replace_datediff(text) == ScanCalls(text, 1, "datediff")

\* \bDATEADD\s*\(\s*week\s*,\s*([^,]+)\s*,\s*([^)]+)\) at position k
WeekShape(text, k) ==
    LET p == SkipWs(text, k + 1)
        w == SkipWs(text, p + 1)
        c1 == SkipWs(text, w + 1)
        c2 == FirstAt(text, c1 + 1, ",")
        close == FirstAt(text, c2 + 1, ")")
    IN  [ok |-> /\ Lower(Tok(text, k)) = "dateadd"
                /\ Tok(text, p) = "("
                /\ Lower(Tok(text, w)) = "week"
                /\ Tok(text, c1) = ","
                /\ c2 > c1 + 1
                /\ close > c2 + 1,
         n |-> IF c2 > c1 + 1 THEN Strip(SubSeq(text, c1 + 1, c2 - 1)) ELSE <<>>,
         expr |-> IF close > c2 + 1 THEN Strip(SubSeq(text, c2 + 1, close - 1)) ELSE <<>>,
         close |-> close]

\* re.sub(<the week pattern>, dateadd_week_repl, out)
RECURSIVE dateadd_week(_, _)
dateadd_week(text, k) ==
    IF k > Len(text) THEN <<>>
    ELSE LET m == WeekShape(text, k)
         IN  IF m.ok
             THEN Call2("date_add", m.expr, m.n \o Times7)
                      \o dateadd_week(text, m.close + 1)
             ELSE <<text[k]>> \o dateadd_week(text, k + 1)

\* rewrite_complex_functions: replace_dateadd, replace_datediff, the week
\* pattern (its other substitutions need DATE_TRUNC, TO_CHAR, JSON_...,
\* LISTAGG, CONVERT, DATEPART or EXTRACT, which the texts of the model do
\* not hold)
rewrite_complex_functions(sql) ==
    dateadd_week(replace_datediff(replace_dateadd(sql)), 1)

\* does re.search(r'\bQUALIFY\b', ...) find the word in this token
HoldsQualify(t) ==
    \/ Lower(t) = "qualify"
    \/ t \in {QualifyHeader, ConvertedPrefix, ComprehensiveTodo, InlineQualify}

\* add_inline_warnings_to_sql: the lines of the text, each line that holds
\* QUALIFY followed by the warning line; `seen` tells whether the line so far
\* holds QUALIFY
RECURSIVE add_inline_warnings_to_sql(_, _, _)
add_inline_warnings_to_sql(text, k, seen) ==
    IF k > Len(text)
    THEN (IF seen THEN <<"\n", InlineQualify>> ELSE <<>>)
    ELSE IF text[k] = "\n"
    THEN (IF seen THEN <<"\n", InlineQualify, "\n">> ELSE <<"\n">>)
             \o add_inline_warnings_to_sql(text, k + 1, FALSE)
    ELSE IF text[k] = LegacyHeader
    THEN <<LegacyHeader>> \o add_inline_warnings_to_sql(text, k + 1, FALSE)
    ELSE IF seen \/ HoldsQualify(text[k])
    THEN <<text[k]>> \o add_inline_warnings_to_sql(text, k + 1, TRUE)
    ELSE <<text[k]>> \o add_inline_warnings_to_sql(text, k + 1, FALSE)

\* QUALIFY_PATTERN.search(out)
HasQualify(text) == \E k \in 1..Len(text) : HoldsQualify(text[k])

\* 'Converted from QUALIFY' in out
HasConverted(text) == \E k \in 1..Len(text) : text[k] = ConvertedPrefix

\* Flag QUALIFY for manual inspection (if not already auto-converted)
qualify_header(text) ==
    IF HasQualify(text) /\ ~HasConverted(text)
    THEN <<QualifyHeader, "\n">> \o text
    ELSE text

\* the legacy-reference header block of apply_sql_rewrites
LegacyTableRefs(text) ==
    MatchesProdDotted(text) \/ MatchesRawUnderscore(text) \/ MatchesStagingDotted(text)

legacy_header(text) ==
    IF LegacyTableRefs(text) THEN <<LegacyHeader>> \o text ELSE text

\* the passes of apply_sql_rewrites between the schema pass and the headers,
\* on a text that is a string
function_passes(text) ==
    add_inline_warnings_to_sql(
        rewrite_complex_functions(
            simple_rewrites(
                add_comprehensive_function_mappings(
                    apply_csv_function_mappings(text), 1), 1)), 1, FALSE)

\* apply_sql_rewrites: what it returns, or that it raised.  With the result of
\* the schema stage None, apply_csv_function_mappings hands None on (or raises
\* in re.sub for a VARCHAR entry) and add_comprehensive_function_mappings
\* raises TypeError in re.sub.
apply_sql_rewrites(sql, map) ==
    LET fixed == auto_fix_databricks_issues(sql)
        out   == rewrite_schema_qualification(fixed, map)
    IN  IF out = NoText
        THEN [raised |-> TRUE, out |-> NoText]
        ELSE [raised |-> FALSE,
              out |-> legacy_header(qualify_header(function_passes(out)))]

-----------------------------------------------------------------------------
(* Documents *)

NoPayload ==
    [present |-> FALSE, inputType |-> Absent, defaultValue |-> Absent,
     name |-> Absent, query |-> NoText, source |-> NoText,
     dataConnectionId |-> Absent]

EmptyDict == [NoPayload EXCEPT !.present = TRUE]

\* bool(payload): a dict is truthy when it has a key
TruthyDict(p) ==
    /\ p.present
    /\ \/ p.inputType # Absent
       \/ p.defaultValue # Absent
       \/ p.name # Absent
       \/ p.query # NoText
       \/ p.source # NoText
       \/ p.dataConnectionId # Absent

NoCell ==
    [type |-> Absent, cellType |-> Absent, dataConnectionId |-> Absent,
     data |-> NoPayload, config |-> NoPayload]

NoSharedAssets == [has |-> FALSE, hasDataConnections |-> FALSE, dataConnections |-> <<>>]
SharedAssets(conns) == [has |-> TRUE, hasDataConnections |-> TRUE, dataConnections |-> conns]

\* cell.get("type") or cell.get("cellType")
cell_type(cell) == PyOr(cell.type, cell.cellType)

\* which dict  cell.get("data", {}) or cell.get("config", {})  evaluates to:
\* the cell's data, the cell's config, or a fresh empty dict
PayloadKey(cell) ==
    IF TruthyDict(cell.data) THEN "data"
    ELSE IF cell.config.present THEN "config"
    ELSE "none"

Payload(cell) ==
    CASE PayloadKey(cell) = "data" -> cell.data
      [] PayloadKey(cell) = "config" -> cell.config
      [] OTHER -> EmptyDict

\* a write through the variable `data` reaches the cell's own dict
SetPayload(cell, p) ==
    CASE PayloadKey(cell) = "data" -> [cell EXCEPT !.data = p]
      [] PayloadKey(cell) = "config" -> [cell EXCEPT !.config = p]
      [] OTHER -> cell

\* data.get("query") or data.get("source")
QueryOf(cell) == PyOrText(Payload(cell).query, Payload(cell).source)

\* data.get("dataConnectionId") or cell.get("dataConnectionId")
ConnIdOf(cell) == PyOr(Payload(cell).dataConnectionId, cell.dataConnectionId)

-----------------------------------------------------------------------------
(* transform_hex_yaml, piece by piece *)

\* d = doc: the working document is the caller's own object
AliasCopy(h, r) == [heap |-> h, ref |-> r]

\* d = deepcopy(doc): a new object with the same value
deepcopy(h, r) == [heap |-> Append(h, h[r]), ref |-> Len(h) + 1]

\* a default of two ids instead of three
TwoDefaultIds(arg) == IF arg.given THEN arg.ids ELSE {DefaultId1, DefaultId3}

\* the default ids and set(redshift_conn_ids or [])
ResolveSourceIds(arg) == IF arg.given THEN arg.ids ELSE DefaultRedshiftIds

BoolInputTypes == {"BOOLEAN", "TOGGLE", "CHECKBOX"}

\* the input kind is converted, the default value is left as it was
ConvertKindOnly(data) == [data EXCEPT !.inputType = "TEXT"]

\* the body of  if input_type in ("BOOLEAN", "TOGGLE", "CHECKBOX")
convert_input(data) ==
    [data EXCEPT !.inputType = "TEXT",
                 !.defaultValue =
                     IF IsBool(@) \/ InTrueFalse(@)
                     THEN (IF Truthy(@) THEN "true" ELSE "false")
                     ELSE @]

\* the INPUT branch of the loop
handle_input(cell) ==
    IF Payload(cell).inputType \in BoolInputTypes
    THEN SetPayload(cell, convert_input(Payload(cell)))
    ELSE cell

\* every cell that is not an INPUT cell is taken for a SQL cell
AnyTypeIsSql(ct) == TRUE

\* cell_type.upper() in ("DATA", "SQL")
IsSqlType(ct) == Upper(ct) \in {"DATA", "SQL"}

\* the heuristic is applied whatever the source set is
HeuristicAlways(cell, ids) ==
    \/ ids # {} /\ ConnIdOf(cell) \in ids
    \/ IsStr(QueryOf(cell)) /\ LegacyHeuristic(QueryOf(cell))

\* should_process
should_process(cell, ids) ==
    \/ ids # {} /\ ConnIdOf(cell) \in ids
    \/ ids = {} /\ IsStr(QueryOf(cell)) /\ LegacyHeuristic(QueryOf(cell))

\* 1) Update connection
update_connection(cell, target) ==
    IF cell.dataConnectionId # Absent
    THEN [cell EXCEPT !.dataConnectionId = target]
    ELSE IF Payload(cell).dataConnectionId # Absent
    THEN SetPayload(cell, [Payload(cell) EXCEPT !.dataConnectionId = target])
    ELSE cell

\* 2) Rewrite SQL: the write-back of rewritten_sql
write_back(cell, rewritten_sql) ==
    SetPayload(cell,
        [Payload(cell) EXCEPT
            !.query = IF @ # NoText THEN rewritten_sql ELSE @,
            !.source = IF @ # NoText THEN rewritten_sql ELSE @])

\* the counter goes up for every processed cell
CountAlways(query) == 1

\* rewrote_cells += 1 sits inside  if isinstance(query, str)
count_increment(query) == IF IsStr(query) THEN 1 ELSE 0

\* does the loop body raise on this cell: cell_type.upper() on None
\* (AttributeError), or apply_sql_rewrites raising
CellRaisesAt(cell, ids, map) ==
    /\ cell_type(cell) # "INPUT"
    /\ \/ cell_type(cell) = Absent
       \/ /\ IsSqlType(cell_type(cell))
          /\ should_process(cell, ids)
          /\ IsStr(QueryOf(cell))
          /\ apply_sql_rewrites(QueryOf(cell), map).raised

\* the loop body on a cell it does not raise on: the cell afterwards, whether
\* it passed should_process, and what it adds to the counter
CellStep(cell, target, ids, map) ==
    IF cell_type(cell) = "INPUT"
    THEN [cell |-> handle_input(cell), processed |-> FALSE, add |-> 0]
    ELSE IF ~IsSqlType(cell_type(cell)) \/ ~should_process(cell, ids)
    THEN [cell |-> cell, processed |-> FALSE, add |-> 0]
    ELSE LET c1 == update_connection(cell, target)
             q  == QueryOf(cell)
         IN  [cell |-> IF IsStr(q)
                       THEN write_back(c1, apply_sql_rewrites(q, map).out)
                       ELSE c1,
              processed |-> TRUE,
              add |-> count_increment(q)]

\* the default id is overwritten whenever the key is there
DefaultAlways(d, target, ids) ==
    IF d.defaultDataConnectionId # Absent
    THEN [d EXCEPT !.defaultDataConnectionId = target]
    ELSE d

\* Update project-level default connection if present
update_default(d, target, ids) ==
    IF /\ d.defaultDataConnectionId # Absent
       /\ (ids = {} \/ d.defaultDataConnectionId \in ids)
    THEN [d EXCEPT !.defaultDataConnectionId = target]
    ELSE d

TargetConn(target) == [dataConnectionId |-> target, name |-> Absent]

\* index of the first entry whose id is in ids, 0 when there is none
FirstIn(conns, ids) ==
    IF \E k \in 1..Len(conns) : conns[k].dataConnectionId \in ids
    THEN CHOOSE k \in 1..Len(conns) :
            /\ conns[k].dataConnectionId \in ids
            /\ \A j \in 1..(k - 1) : conns[j].dataConnectionId \notin ids
    ELSE 0

\* the target id is appended even when a source entry is there
SharedAppendOnly(conns, target, ids) ==
    IF \E k \in 1..Len(conns) : conns[k].dataConnectionId = target
    THEN conns
    ELSE Append(conns, TargetConn(target))

\* Update sharedAssets dataConnections: the list afterwards
update_data_connections(conns, target, ids) ==
    IF \E k \in 1..Len(conns) : conns[k].dataConnectionId = target
    THEN conns
    ELSE IF ids # {}
    THEN (IF FirstIn(conns, ids) # 0
          THEN [conns EXCEPT ![FirstIn(conns, ids)] = TargetConn(target)]
          ELSE Append(conns, TargetConn(target)))
    ELSE (IF conns # <<>>
          THEN [conns EXCEPT ![1] = TargetConn(target)]
          ELSE Append(conns, TargetConn(target)))

update_shared_assets(d, target, ids) ==
    IF d.sharedAssets.has /\ d.sharedAssets.hasDataConnections
    THEN [d EXCEPT !.sharedAssets.dataConnections =
                       update_data_connections(@, target, ids)]
    ELSE d

\* transform_hex_yaml as a function of its arguments: the returned document
\* and count, or that it raised
RECURSIVE LoopFrom(_, _, _, _, _, _)
LoopFrom(d, k, n, target, ids, map) ==
    IF k > Len(d.cells)
    THEN [raised |-> FALSE,
          d |-> update_shared_assets(update_default(d, target, ids), target, ids),
          n |-> n]
    ELSE IF CellRaisesAt(d.cells[k], ids, map)
    THEN [raised |-> TRUE, d |-> d, n |-> n]
    ELSE LET st == CellStep(d.cells[k], target, ids, map)
         IN  LoopFrom([d EXCEPT !.cells[k] = st.cell], k + 1, n + st.add,
                      target, ids, map)

transform_hex_yaml(doc, target, arg, map) ==
    LoopFrom(doc, 1, 0, target, ResolveSourceIds(arg), map)

-----------------------------------------------------------------------------
(* Inputs *)

SeqUpTo(S, n) == UNION {[1..m -> S] : m \in 0..n}

QLegacy == <<"select", " ", "from", " ", "prod", ".", "zz", ".", "orders">>
QPlain == <<"select", " ", "1">>
QUnder == <<"select", " ", "from", " ", "PROD_mart", ".", "t">>
QStaging == <<"select", " ", "SUPER", " ", "from", " ", "Staging", ".", "ORDERS">>

SqlData(conn, q) ==
    [NoPayload EXCEPT !.present = TRUE, !.dataConnectionId = conn, !.query = q]

InputData(kind, dv) ==
    [NoPayload EXCEPT !.present = TRUE, !.inputType = kind, !.defaultValue = dv,
                      !.name = "flag"]

SqlCells ==
    { [NoCell EXCEPT !.type = "SQL", !.data = SqlData(RS, QLegacy)],
      [NoCell EXCEPT !.type = "DATA", !.data = SqlData(DefaultId2, QStaging)],
      [NoCell EXCEPT !.type = "sql", !.data = SqlData(PG, QUnder)],
      [NoCell EXCEPT !.type = "SQL", !.data = SqlData(PG, QPlain)],
      \* the id at both levels
      [NoCell EXCEPT !.type = "SQL", !.dataConnectionId = PG,
                     !.data = SqlData(RS, QPlain)],
      \* cellType, the id at the cell level, the text in config.source
      [NoCell EXCEPT !.cellType = "SQL", !.dataConnectionId = RS,
                     !.data = EmptyDict,
                     !.config = [NoPayload EXCEPT !.present = TRUE,
                                                  !.source = QLegacy]],
      \* no query text
      [NoCell EXCEPT !.type = "SQL", !.data = SqlData(RS, NoText)],
      \* both text fields
      [NoCell EXCEPT !.type = "SQL",
                     !.data = [SqlData(RS, QPlain) EXCEPT !.source = QStaging]],
      \* already on the target
      [NoCell EXCEPT !.type = "SQL", !.data = SqlData(DBX, QLegacy)],
      \* no connection id anywhere
      [NoCell EXCEPT !.type = "SQL", !.data = SqlData(Absent, QLegacy)] }

InputCells ==
    { [NoCell EXCEPT !.type = "INPUT", !.data = InputData("BOOLEAN", PyTrue)],
      [NoCell EXCEPT !.type = "INPUT", !.data = InputData("TOGGLE", Py1)],
      [NoCell EXCEPT !.type = "INPUT", !.config = InputData("CHECKBOX", "yes")],
      [NoCell EXCEPT !.type = "INPUT", !.data = InputData("TEXT", PyFalse)],
      [NoCell EXCEPT !.type = "INPUT", !.dataConnectionId = RS,
                     !.data = [InputData("CHECKBOX", PyFalse) EXCEPT
                                  !.dataConnectionId = RS, !.query = QLegacy]] }

OtherCells ==
    { [NoCell EXCEPT !.type = "CODE", !.data = SqlData(RS, QLegacy)],
      [NoCell EXCEPT !.type = "input", !.data = InputData("BOOLEAN", PyTrue)],
      \* neither type nor cellType
      [NoCell EXCEPT !.data = SqlData(RS, QPlain)] }

CellPool == SqlCells \cup InputCells \cup OtherCells

DocCellPool ==
    { [NoCell EXCEPT !.type = "SQL", !.data = SqlData(RS, QLegacy)],
      [NoCell EXCEPT !.type = "SQL", !.data = SqlData(PG, QLegacy)],
      [NoCell EXCEPT !.data = SqlData(RS, QPlain)] }

ConnPool ==
    { [dataConnectionId |-> RS, name |-> "warehouse"],
      [dataConnectionId |-> PG, name |-> Absent],
      [dataConnectionId |-> DBX, name |-> "lake"],
      [dataConnectionId |-> DefaultId1, name |-> Absent] }

SourceArgs == {Omitted, Given({}), Given({RS}), Given({RS, DBX})}

SelectFrom == <<"select", " ", "a", " ", "from", " ">>

QTwoLines == <<"select", " ", "a", "\n", "from", " ", "t">>
QGithub == SelectFrom \o <<"prod", ".", "raw_github", ".", "repos">>
QGithubCase == SelectFrom \o <<"PROD", ".", "Raw_GitHub", ".", "repos">>
QArchive == SelectFrom \o <<"prod", ".", "archive", ".", "t">>
QEvents == SelectFrom \o <<"prod", ".", "events", ".", "t">>
QMartSales == SelectFrom \o <<"prod_mart_sales", ".", "t">>
QTwoPart == SelectFrom \o <<"zz", ".", "t">>
QStagingOrders == SelectFrom \o <<"staging", ".", "orders">>
QOrders == SelectFrom \o <<"orders">>

\* QUALIFY <fn>() OVER (<col>) = <one>
QualifyClause(fn, col, one) ==
    <<"QUALIFY", " ", fn, "(", ")", " ", "OVER", " ", "(", col, ")", " ", "=", " ", one>>

QRowNumber == SelectFrom \o <<"t", " ">> \o QualifyClause("ROW_NUMBER", "a", "1")
QRank == SelectFrom \o <<"t", " ">> \o QualifyClause("RANK", "a", "1")
QRowNumberAndRank ==
    QRowNumber \o <<" ", "union", " ">> \o SelectFrom \o <<"u", " ">>
        \o QualifyClause("RANK", "b", "1")
QTwoRanks ==
    QRank \o <<"\n", "union", " ">> \o SelectFrom \o <<"u", " ">>
        \o QualifyClause("RANK", "b", "1")
QRowNumberTen == SelectFrom \o <<"t", " ">> \o QualifyClause("ROW_NUMBER", "a", "10")

QNvl == <<"select", " ", "NVL", "(", "a", ",", " ", "1", ")">>
QDateadd == <<"select", " ", "DATEADD", "(", "day", ",", " ", "-", "5", ",", " ", "a", ")">>
QDatediff == <<"select", " ", "DATEDIFF", "(", "HOUR", ",", "a", ",", "b", ")">>

\* the texts apply_sql_rewrites is called on under SpecSql
SqlTexts ==
    {QPlain, QTwoLines, QLegacy, QUnder, QStaging, QGithub, QGithubCase, QArchive,
     QEvents, QMartSales, QTwoPart, QStagingOrders, QOrders, QRowNumber, QRank,
     QRowNumberAndRank, QTwoRanks, QRowNumberTen, QNvl, QDateadd, QDatediff}

SchemaMaps == {HardcodedSchemaMap, TableSchemaMap}

\* documents whose cells vary
CellDocs ==
    { [cells |-> cs, defaultDataConnectionId |-> RS,
       sharedAssets |-> SharedAssets(<<[dataConnectionId |-> RS, name |-> "warehouse"]>>)]
      : cs \in SeqUpTo(CellPool, MaxCells) }

\* documents whose document-level fields vary
LevelDocs ==
    { [cells |-> cs, defaultDataConnectionId |-> dflt, sharedAssets |-> sa]
      : cs \in SeqUpTo(DocCellPool, MaxDocCells),
        dflt \in {Absent, RS, PG, DefaultId3},
        sa \in {NoSharedAssets,
                [has |-> TRUE, hasDataConnections |-> FALSE, dataConnections |-> <<>>]}
               \cup {SharedAssets(c) : c \in SeqUpTo(ConnPool, MaxConns)} }

-----------------------------------------------------------------------------
(* The state machine *)

NoResult == [d |-> [cells |-> <<>>, defaultDataConnectionId |-> Absent,
                    sharedAssets |-> NoSharedAssets],
             n |-> 0]

\* no call of apply_sql_rewrites on its own is under way
IdleSql == sqlArg = <<>> /\ outText = <<>> /\ stage = "idle"

\* reader.fieldnames of a file without a first line
NoFields == <<NoText>>

\* a mapping without entries
EmptyMap == [kind |-> "pair", table |-> <<>>, pairs |-> {}]

\* no loader runs; the mappings are loaded
IdleLoad ==
    /\ FUNCTION_MAPPINGS = <<>>
    /\ csvFile = [status |-> "missing", lines |-> <<>>]
    /\ loading = "none"
    /\ lpc = "idle"
    /\ fieldnames = NoFields
    /\ rowAt = 1
    /\ schema_map = EmptyMap
    /\ function_mappings = <<>>
    /\ exc = "none"

\* no batch runs
IdleBatch ==
    /\ batchMode = "none"
    /\ files = <<>>
    /\ fileAt = 1
    /\ converted = {}
    /\ errors = {}
    /\ bpc = "idle"

\* no input of a scanner
NoCase == [name |-> "", args |-> <<>>, closed |-> TRUE, framed |-> FALSE]

\* no scanner runs
IdleScan ==
    /\ scanName = "none"
    /\ scanCase = NoCase
    /\ scanText = <<>>
    /\ scanAt = 1
    /\ scanResult = <<>>
    /\ scanArgs = <<>>
    /\ spc = "idle"

\* no concurrent call is under way
IdlePar ==
    /\ workers = <<>>
    /\ objects = <<>>

InitWith(docs) ==
    /\ SCHEMA_MAP \in SchemaMaps
    /\ \E doc \in docs : heap = <<doc>> /\ original = doc
    /\ docRef = 1
    /\ dRef = 0
    /\ databricks_conn_id = DBX
    /\ srcArg \in SourceArgs
    /\ redshift_conn_ids = {}
    /\ i = 1
    /\ rewrote_cells = 0
    /\ pc = "start"
    /\ run = 1
    /\ processed = {}
    /\ first = NoResult
    /\ ret = NoResult
    /\ IdleSql
    /\ IdleLoad
    /\ IdleBatch
    /\ IdleScan
    /\ IdlePar

Init == InitWith(CellDocs)

InitDoc == InitWith(LevelDocs)

\* entry of transform_hex_yaml: the copy, the source set, the counter
Call ==
    /\ pc = "start"
    /\ LET c == deepcopy(heap, docRef)
       IN  heap' = c.heap /\ dRef' = c.ref
    /\ redshift_conn_ids' = ResolveSourceIds(srcArg)
    /\ rewrote_cells' = 0
    /\ i' = 1
    /\ processed' = {}
    /\ pc' = "loop"
    /\ UNCHANGED <<SCHEMA_MAP, docRef, databricks_conn_id, srcArg, run, original,
                   first, ret>>
    /\ UNCHANGED <<sqlVars, loadVars, batchVars, scanVars, parVars>>

\* one iteration of  for cell in d.get("cells", [])
ProcessCell ==
    /\ pc = "loop"
    /\ i <= Len(heap[dRef].cells)
    /\ ~CellRaisesAt(heap[dRef].cells[i], redshift_conn_ids, SCHEMA_MAP)
    /\ LET st == CellStep(heap[dRef].cells[i], databricks_conn_id,
                          redshift_conn_ids, SCHEMA_MAP)
       IN  /\ heap' = [heap EXCEPT ![dRef].cells[i] = st.cell]
           /\ rewrote_cells' = rewrote_cells + st.add
           /\ processed' = IF st.processed THEN processed \cup {i} ELSE processed
    /\ i' = i + 1
    /\ UNCHANGED <<SCHEMA_MAP, docRef, dRef, databricks_conn_id, srcArg,
                   redshift_conn_ids, pc, run, original, first, ret>>
    /\ UNCHANGED <<sqlVars, loadVars, batchVars, scanVars, parVars>>

\* an iteration that raises: the connection id of the cell may already have
\* been overwritten in d; nothing is returned
CellRaises ==
    /\ pc = "loop"
    /\ i <= Len(heap[dRef].cells)
    /\ CellRaisesAt(heap[dRef].cells[i], redshift_conn_ids, SCHEMA_MAP)
    /\ heap' = [heap EXCEPT ![dRef].cells[i] =
                   IF cell_type(@) = Absent
                   THEN @
                   ELSE update_connection(@, databricks_conn_id)]
    /\ pc' = "raised"
    /\ UNCHANGED <<SCHEMA_MAP, docRef, dRef, databricks_conn_id, srcArg,
                   redshift_conn_ids, i, rewrote_cells, run, original, processed,
                   first, ret>>
    /\ UNCHANGED <<sqlVars, loadVars, batchVars, scanVars, parVars>>

\* after the loop: default connection, shared assets, return d, rewrote_cells
Finish ==
    /\ pc = "loop"
    /\ i > Len(heap[dRef].cells)
    /\ heap' = [heap EXCEPT ![dRef] =
                   update_shared_assets(
                       update_default(@, databricks_conn_id, redshift_conn_ids),
                       databricks_conn_id, redshift_conn_ids)]
    /\ ret' = [d |-> heap'[dRef], n |-> rewrote_cells]
    /\ pc' = "done"
    /\ UNCHANGED <<SCHEMA_MAP, docRef, dRef, databricks_conn_id, srcArg,
                   redshift_conn_ids, i, rewrote_cells, run, original, processed,
                   first>>
    /\ UNCHANGED <<sqlVars, loadVars, batchVars, scanVars, parVars>>

\* the caller runs transform_hex_yaml again on the document it got back, with
\* the same target id and the same source argument
Rerun ==
    /\ pc = "done"
    /\ run = 1
    /\ run' = 2
    /\ first' = ret
    /\ docRef' = dRef
    /\ original' = heap[dRef]
    /\ pc' = "start"
    /\ UNCHANGED <<SCHEMA_MAP, heap, dRef, databricks_conn_id, srcArg,
                   redshift_conn_ids, i, rewrote_cells, processed, ret>>
    /\ UNCHANGED <<sqlVars, loadVars, batchVars, scanVars, parVars>>

Next == Call \/ ProcessCell \/ CellRaises \/ Finish \/ Rerun

Spec == Init /\ [][Next]_vars

SpecDoc == InitDoc /\ [][Next]_vars

-----------------------------------------------------------------------------
(* apply_sql_rewrites as a process: one step per pass *)

\* no call of transform_hex_yaml is under way
IdleDoc ==
    /\ heap = <<>>
    /\ docRef = 0
    /\ dRef = 0
    /\ databricks_conn_id = DBX
    /\ srcArg = Omitted
    /\ redshift_conn_ids = {}
    /\ i = 1
    /\ rewrote_cells = 0
    /\ pc = "idle"
    /\ run = 1
    /\ original = NoResult.d
    /\ processed = {}
    /\ first = NoResult
    /\ ret = NoResult

\* apply_sql_rewrites(sql) has been called
InitSql ==
    /\ SCHEMA_MAP \in SchemaMaps
    /\ sqlArg \in SqlTexts
    /\ outText = sqlArg
    /\ stage = "auto_fix"
    /\ IdleDoc
    /\ IdleLoad
    /\ IdleBatch
    /\ IdleScan
    /\ IdlePar

\* a pass that turns the text (a string) into `text` and hands on to `next`
Pass(from, text, next) ==
    /\ stage = from
    /\ outText # NoText
    /\ outText' = text
    /\ stage' = next
    /\ UNCHANGED <<SCHEMA_MAP, docVars, sqlArg, loadVars, batchVars, scanVars, parVars>>

\* the schema stage is left out: the tabular mapping follows the auto-fix
AutoFixSkipsSchema == Pass("auto_fix", auto_fix_databricks_issues(outText), "csv")

\* out, remaining_warnings = auto_fix_databricks_issues(sql)
AutoFix == Pass("auto_fix", auto_fix_databricks_issues(outText), "schema")

\* out = rewrite_schema_qualification(out)
SchemaQualification ==
    /\ stage = "schema"
    /\ outText' = rewrite_schema_qualification(outText, SCHEMA_MAP)
    /\ stage' = "csv"
    /\ UNCHANGED <<SCHEMA_MAP, docVars, sqlArg, loadVars, batchVars, scanVars, parVars>>

\* out = apply_csv_function_mappings(out): None goes through
CsvFunctionMappings ==
    /\ stage = "csv"
    /\ outText' = apply_csv_function_mappings(outText)
    /\ stage' = "comprehensive"
    /\ UNCHANGED <<SCHEMA_MAP, docVars, sqlArg, loadVars, batchVars, scanVars, parVars>>

\* out = add_comprehensive_function_mappings(out)
ComprehensiveMappings ==
    Pass("comprehensive", add_comprehensive_function_mappings(outText, 1), "simple")

\* re.sub on None: TypeError, which nothing in apply_sql_rewrites catches
ComprehensiveRaises ==
    /\ stage = "comprehensive"
    /\ outText = NoText
    /\ stage' = "raised"
    /\ UNCHANGED <<SCHEMA_MAP, docVars, sqlArg, outText, loadVars, batchVars, scanVars, parVars>>

\* for pat, repl in SQL_SIMPLE_REWRITES
SimpleRewrites == Pass("simple", simple_rewrites(outText, 1), "complex")

\* out = rewrite_complex_functions(out)
ComplexFunctions == Pass("complex", rewrite_complex_functions(outText), "inline")

\* out = add_inline_warnings_to_sql(out)
InlineWarnings ==
    Pass("inline", add_inline_warnings_to_sql(outText, 1, FALSE), "headers")

\* the header blocks, and return out
HeaderWarnings == Pass("headers", legacy_header(qualify_header(outText)), "returned")

NextSql ==
    \/ AutoFix
    \/ SchemaQualification
    \/ CsvFunctionMappings
    \/ ComprehensiveMappings
    \/ ComprehensiveRaises
    \/ SimpleRewrites
    \/ ComplexFunctions
    \/ InlineWarnings
    \/ HeaderWarnings

SpecSql == InitSql /\ [][NextSql]_vars

-----------------------------------------------------------------------------
(* rewrite_complex_functions as a process: one step per substitution *)

\* name(unit, arg2, arg3) as it can be written: `sp` stands before the
\* parenthesis and `sep` behind each comma
CallText(name, sp, unit, arg2, arg3, sep) ==
    <<name>> \o sp \o <<"(", unit, ",">> \o sep \o arg2 \o <<",">> \o sep
        \o arg3 \o <<")">>

FCall == <<"f", "(", "a", ",", " ", "b", ")">>

\* how a call is laid out: tight, as the rewrite itself writes it, loose
Layouts == {[sp |-> <<>>, sep |-> <<>>],
            [sp |-> <<>>, sep |-> <<" ">>],
            [sp |-> <<" ">>, sep |-> <<" ">>]}

\* where the call stands: after select, in the arguments of another
\* function, in the arguments of a DATEADD call, in those of a DATEDIFF call
Places == {"select", "call", "dateadd", "datediff"}

DateaddCases ==
    [name : {"DATEADD", "dateadd"},
     unit : {"day", "DAY", "days", "week", "Week", "month", "hour", "HOUR"},
     arg2 : {<<"5">>, <<"-", "5">>, <<"-", " ", "5">>, <<"n">>},
     arg3 : {<<"col">>, FCall},
     layout : Layouts,
     place : Places]

DatediffCases ==
    [name : {"DATEDIFF", "datediff"},
     unit : {"day", "DAY", "hour", "HOUR"},
     arg2 : {<<"a">>, FCall},
     arg3 : {<<"b">>, <<"col">>},
     layout : Layouts,
     place : Places]

CallCases == DateaddCases \cup DatediffCases

CallOf(c) == CallText(c.name, c.layout.sp, c.unit, c.arg2, c.arg3, c.layout.sep)

\* the text rewrite_complex_functions is called on for the case c
CaseText(c) ==
    CASE c.place = "select" -> <<"select", " ">> \o CallOf(c)
      [] c.place = "call" -> <<"f", "(">> \o CallOf(c) \o <<")">>
      [] c.place = "dateadd" ->
            CallText("DATEADD", <<>>, "hour", <<"1">>, CallOf(c), <<" ">>)
      [] c.place = "datediff" ->
            CallText("DATEDIFF", <<>>, "hour", CallOf(c), <<"b">>, <<" ">>)

\* rewrite_complex_functions(sql) has been called
InitCalls ==
    /\ SCHEMA_MAP = HardcodedSchemaMap
    /\ \E c \in CallCases : sqlArg = CaseText(c)
    /\ outText = sqlArg
    /\ stage = "replace_dateadd"
    /\ IdleDoc
    /\ IdleLoad
    /\ IdleBatch
    /\ IdleScan
    /\ IdlePar

\* out = replace_dateadd(out)
ReplaceDateadd ==
    Pass("replace_dateadd", replace_dateadd(outText), "replace_datediff")

\* out = replace_datediff(out)
ReplaceDatediff ==
    Pass("replace_datediff", replace_datediff(outText), "dateadd_week")

\* out = re.sub(<the week pattern>, dateadd_week_repl, out), and return out
DateaddWeek == Pass("dateadd_week", dateadd_week(outText, 1), "rewritten")

NextCalls == ReplaceDateadd \/ ReplaceDatediff \/ DateaddWeek

SpecCalls == InitCalls /\ [][NextCalls]_vars

-----------------------------------------------------------------------------
(* The loaders of the two module-level mappings *)

\* A CSV file is the sequence of its lines, a line the sequence of its
\* fields, a field a text; a header name is one lexeme.  csv.DictReader
\* skips lines without any field, which the files of the model do not hold.
FieldName(s) == <<s>>

RedshiftTable == FieldName("Redshift Table")
DatabricksTable == FieldName("Databricks Table")
RedshiftDatabase == FieldName("Redshift Database")
RedshiftSchema == FieldName("Redshift Schema")
DatabricksCatalog == FieldName("Databricks Catalog")
DatabricksSchema == FieldName("Databricks Schema")
Sno == FieldName("SNO")
RedshiftFunction == FieldName("Redshift Function")
DatabricksEquivalent == FieldName("Databricks Equivalent")

\* 'SNO,Redshift Function,Purpose,Databricks Equivalent'
MarkerHeader == <<Sno, RedshiftFunction, FieldName("Purpose"), DatabricksEquivalent>>

\* SCHEMA_MAP and FUNCTION_MAPPINGS before the module has loaded them
NotLoaded == [kind |-> "not loaded", table |-> <<>>, pairs |-> {}]
NoMappings == <<[src |-> NoText, dst |-> NoText]>>

\* nm in names
HasField(names, nm) == \E k \in 1..Len(names) : names[k] = nm

\* row[nm] of a row DictReader yields for `line`: the field under the (last)
\* column of that name, None when the line is shorter than the header
RowGet(names, line, nm) ==
    LET col == CHOOSE k \in 1..Len(names) :
                   names[k] = nm /\ \A j \in (k + 1)..Len(names) : names[j] # nm
    IN  IF col > Len(line) THEN NoText ELSE line[col]

\* row.get(nm, '')
RowGetOr(names, line, nm) ==
    IF HasField(names, nm) THEN RowGet(names, line, nm) ELSE <<>>

\* d[key] = val on a dict kept as the sequence of its entries
DictSet(entries, key, val) ==
    IF \E k \in 1..Len(entries) : entries[k].src = key
    THEN [k \in 1..Len(entries) |->
             IF entries[k].src = key THEN [src |-> key, dst |-> val] ELSE entries[k]]
    ELSE Append(entries, [src |-> key, dst |-> val])

\* the string of a field that is one lexeme at most (the names in the pair
\* rows of the model)
Word(t) == IF t = <<>> THEN "" ELSE t[1]

\* str.isdigit() on a field
IsDigitText(t) == Len(t) = 1 /\ IsDigits(t[1])

\* get_hardcoded_schema_map()
get_hardcoded_schema_map == HardcodedSchemaMap

\* only the first except clause is there
CaughtFileNotFound(e) == e = "FileNotFoundError"

\* except FileNotFoundError: ... except Exception as e: ...  Every exception
\* the try block of a loader can raise derives from Exception
Caught(e) ==
    \/ e = "FileNotFoundError"
    \/ e \in {"PermissionError", "UnicodeDecodeError", "TypeError", "ValueError",
              "AttributeError", "KeyError"}

\* the exception the body of the old-format loop raises on `line`, "none"
\* when it raises none: the four row[...].strip() in their order
PairRowException(names, line) ==
    IF RowGet(names, line, RedshiftDatabase) = NoText THEN "AttributeError"
    ELSE IF RowGet(names, line, RedshiftSchema) = NoText THEN "AttributeError"
    ELSE IF ~HasField(names, DatabricksCatalog) THEN "KeyError"
    ELSE IF RowGet(names, line, DatabricksCatalog) = NoText THEN "AttributeError"
    ELSE IF ~HasField(names, DatabricksSchema) THEN "KeyError"
    ELSE IF RowGet(names, line, DatabricksSchema) = NoText THEN "AttributeError"
    ELSE "none"

\* open(csv_path) and the first read: what it raises, "none" for a text file
OpenException(file) ==
    CASE file.status = "missing" -> "FileNotFoundError"
      [] file.status = "denied" -> "PermissionError"
      [] file.status = "undecodable" -> "UnicodeDecodeError"
      [] OTHER -> "none"

MaxLines == 3      \* lines per CSV file

TableHeader == <<RedshiftTable, DatabricksTable>>
PairHeader == <<RedshiftDatabase, RedshiftSchema, DatabricksCatalog, DatabricksSchema>>
PairHeaderNoTarget == <<RedshiftDatabase, RedshiftSchema>>

LinePool ==
    {TableHeader, PairHeader, PairHeaderNoTarget, MarkerHeader,
     <<FieldName("Function mapping sheet")>>,
     <<<<"orders">>, <<" ", "main", ".", "orders">>>>,
     <<<<"Staging", ".", "ORDERS", " ">>, <<"cat", ".", "stg", ".", "orders">>>>,
     <<<<"ORDERS">>>>,
     <<<<"PROD">>, <<"Raw_GitHub">>, <<" ", "source">>, <<"github">>>>,
     <<<<"1">>, <<"NVL">>, <<"nulls">>, <<"COALESCE">>>>,
     <<<<"2">>, <<"NVL">>>>}

CsvFiles ==
    {[status |-> st, lines |-> <<>>] : st \in {"missing", "denied", "undecodable"}}
        \cup {[status |-> "text", lines |-> ls] : ls \in SeqUpTo(LinePool, MaxLines)}

\* load_schema_mappings(csv_path) or load_function_mappings(csv_path) has
\* been called, for the assignment at module level
InitLoad ==
    /\ SCHEMA_MAP = NotLoaded
    /\ FUNCTION_MAPPINGS = NoMappings
    /\ csvFile \in CsvFiles
    /\ loading \in {"schema", "function"}
    /\ lpc = "open"
    /\ fieldnames = NoFields
    /\ rowAt = 1
    /\ schema_map = EmptyMap
    /\ function_mappings = <<>>
    /\ exc = "none"
    /\ IdleDoc
    /\ IdleSql
    /\ IdleBatch
    /\ IdleScan
    /\ IdlePar

\* with open(csv_path, 'r', encoding='utf-8') as f: the reader and its
\* fieldnames (load_schema_mappings), f.readlines() (load_function_mappings)
OpenCsv ==
    /\ lpc = "open"
    /\ IF OpenException(csvFile) # "none"
       THEN /\ exc' = OpenException(csvFile)
            /\ lpc' = "except"
            /\ UNCHANGED fieldnames
       ELSE /\ exc' = exc
            /\ lpc' = IF loading = "schema" THEN "headers" ELSE "find_header"
            /\ fieldnames' = IF loading = "schema" /\ csvFile.lines # <<>>
                             THEN csvFile.lines[1]
                             ELSE NoFields
    /\ UNCHANGED <<SCHEMA_MAP, docVars, sqlVars, FUNCTION_MAPPINGS, csvFile, loading,
                   rowAt, schema_map, function_mappings, batchVars, scanVars, parVars>>

\* the test of the headers: the branch of the format, TypeError on the
\* fieldnames None of an empty file, ValueError for any other header line
SchemaHeaders ==
    /\ lpc = "headers"
    /\ IF fieldnames = NoFields
       THEN exc' = "TypeError" /\ lpc' = "except"
       ELSE IF HasField(fieldnames, RedshiftTable) /\ HasField(fieldnames, DatabricksTable)
       THEN exc' = exc /\ lpc' = "table_rows"
       ELSE IF HasField(fieldnames, RedshiftDatabase)
                 /\ HasField(fieldnames, RedshiftSchema)
       THEN exc' = exc /\ lpc' = "pair_rows"
       ELSE exc' = "ValueError" /\ lpc' = "except"
    /\ rowAt' = 2
    /\ UNCHANGED <<SCHEMA_MAP, docVars, sqlVars, FUNCTION_MAPPINGS, csvFile, loading,
                   fieldnames, schema_map, function_mappings, batchVars, scanVars, parVars>>

\* one iteration of  for row in reader  in the table-to-table branch
TableRow ==
    /\ lpc = "table_rows"
    /\ rowAt <= Len(csvFile.lines)
    /\ LET line == csvFile.lines[rowAt]
           a == RowGet(fieldnames, line, RedshiftTable)
           b == RowGet(fieldnames, line, DatabricksTable)
           redshift_table == Strip(a)
           databricks_table == Strip(b)
       IN  IF a = NoText \/ b = NoText
           THEN exc' = "AttributeError" /\ lpc' = "except" /\ UNCHANGED schema_map
           ELSE /\ exc' = exc
                /\ lpc' = lpc
                /\ schema_map' =
                       IF redshift_table # <<>> /\ databricks_table # <<>>
                       THEN [schema_map EXCEPT
                                !.kind = "table",
                                !.table = DictSet(@, LowerText(redshift_table),
                                                  databricks_table)]
                       ELSE schema_map
    /\ rowAt' = rowAt + 1
    /\ UNCHANGED <<SCHEMA_MAP, docVars, sqlVars, FUNCTION_MAPPINGS, csvFile, loading,
                   fieldnames, function_mappings, batchVars, scanVars, parVars>>

\* one iteration of  for row in reader  in the old-format branch
PairRow ==
    /\ lpc = "pair_rows"
    /\ rowAt <= Len(csvFile.lines)
    /\ LET line == csvFile.lines[rowAt]
           raised == PairRowException(fieldnames, line)
           redshift_db == Strip(RowGet(fieldnames, line, RedshiftDatabase))
           redshift_schema == Strip(RowGet(fieldnames, line, RedshiftSchema))
           databricks_catalog == Strip(RowGet(fieldnames, line, DatabricksCatalog))
           databricks_schema == Strip(RowGet(fieldnames, line, DatabricksSchema))
           key == [db |-> Word(LowerText(redshift_db)),
                   sch |-> Word(LowerText(redshift_schema))]
       IN  IF raised # "none"
           THEN exc' = raised /\ lpc' = "except" /\ UNCHANGED schema_map
           ELSE /\ exc' = exc
                /\ lpc' = lpc
                /\ schema_map' =
                       [schema_map EXCEPT !.pairs =
                           {e \in @ : e.db # key.db \/ e.sch # key.sch}
                               \cup {[db |-> key.db, sch |-> key.sch,
                                      cat |-> Word(databricks_catalog),
                                      new_sch |-> Word(databricks_schema)]}]
    /\ rowAt' = rowAt + 1
    /\ UNCHANGED <<SCHEMA_MAP, docVars, sqlVars, FUNCTION_MAPPINGS, csvFile, loading,
                   fieldnames, function_mappings, batchVars, scanVars, parVars>>

\* return schema_map, assigned to SCHEMA_MAP at module level
SchemaReturn ==
    /\ lpc \in {"table_rows", "pair_rows"}
    /\ rowAt > Len(csvFile.lines)
    /\ SCHEMA_MAP' = schema_map
    /\ lpc' = "returned"
    /\ UNCHANGED <<docVars, sqlVars, FUNCTION_MAPPINGS, csvFile, loading, fieldnames,
                   rowAt, schema_map, function_mappings, exc, batchVars, scanVars, parVars>>

\* the search of the line that holds the marker header; without one the
\* loader returns {}
FindHeader ==
    /\ lpc = "find_header"
    /\ LET found == {k \in 1..Len(csvFile.lines) : Contains(csvFile.lines[k], MarkerHeader)}
           first_found == CHOOSE k \in found : \A j \in found : k <= j
       IN  IF found = {}
           THEN /\ FUNCTION_MAPPINGS' = <<>>
                /\ lpc' = "returned"
                /\ UNCHANGED <<fieldnames, rowAt>>
           ELSE /\ fieldnames' = csvFile.lines[first_found]
                /\ rowAt' = first_found + 1
                /\ lpc' = "function_rows"
                /\ UNCHANGED FUNCTION_MAPPINGS
    /\ UNCHANGED <<SCHEMA_MAP, docVars, sqlVars, csvFile, loading, schema_map,
                   function_mappings, exc, batchVars, scanVars, parVars>>

\* one iteration of  for row in reader  of load_function_mappings
FunctionRow ==
    /\ lpc = "function_rows"
    /\ rowAt <= Len(csvFile.lines)
    /\ LET line == csvFile.lines[rowAt]
           sno == RowGetOr(fieldnames, line, Sno)
           a == RowGetOr(fieldnames, line, RedshiftFunction)
           b == RowGetOr(fieldnames, line, DatabricksEquivalent)
           redshift_func == Strip(a)
           databricks_equiv == Strip(b)
       IN  IF sno = NoText
           THEN exc' = "AttributeError" /\ lpc' = "except"
                    /\ UNCHANGED function_mappings
           ELSE IF Strip(sno) = <<>> \/ ~IsDigitText(Strip(sno))
           THEN UNCHANGED <<exc, lpc, function_mappings>>
           ELSE IF a = NoText \/ b = NoText
           THEN exc' = "AttributeError" /\ lpc' = "except"
                    /\ UNCHANGED function_mappings
           ELSE /\ exc' = exc
                /\ lpc' = lpc
                /\ function_mappings' =
                       IF /\ redshift_func # <<>>
                          /\ databricks_equiv # <<>>
                          /\ redshift_func # RedshiftFunction
                       THEN DictSet(function_mappings, redshift_func, databricks_equiv)
                       ELSE function_mappings
    /\ rowAt' = rowAt + 1
    /\ UNCHANGED <<SCHEMA_MAP, docVars, sqlVars, FUNCTION_MAPPINGS, csvFile, loading,
                   fieldnames, schema_map, batchVars, scanVars, parVars>>

\* return function_mappings, assigned to FUNCTION_MAPPINGS at module level
FunctionReturn ==
    /\ lpc = "function_rows"
    /\ rowAt > Len(csvFile.lines)
    /\ FUNCTION_MAPPINGS' = function_mappings
    /\ lpc' = "returned"
    /\ UNCHANGED <<SCHEMA_MAP, docVars, sqlVars, csvFile, loading, fieldnames, rowAt,
                   schema_map, function_mappings, exc, batchVars, scanVars, parVars>>

\* the except clauses: the fallback is returned; an exception no clause
\* catches leaves the loader
Except ==
    /\ lpc = "except"
    /\ IF Caught(exc)
       THEN /\ lpc' = "returned"
            /\ SCHEMA_MAP' = IF loading = "schema"
                             THEN get_hardcoded_schema_map
                             ELSE SCHEMA_MAP
            /\ FUNCTION_MAPPINGS' = IF loading = "function"
                                    THEN <<>>
                                    ELSE FUNCTION_MAPPINGS
       ELSE /\ lpc' = "raised"
            /\ UNCHANGED <<SCHEMA_MAP, FUNCTION_MAPPINGS>>
    /\ UNCHANGED <<docVars, sqlVars, csvFile, loading, fieldnames, rowAt, schema_map,
                   function_mappings, exc, batchVars, scanVars, parVars>>

NextLoad ==
    \/ OpenCsv
    \/ SchemaHeaders
    \/ TableRow
    \/ PairRow
    \/ SchemaReturn
    \/ FindHeader
    \/ FunctionRow
    \/ FunctionReturn
    \/ Except

SpecLoad == InitLoad /\ [][NextLoad]_vars

-----------------------------------------------------------------------------
(* The batch paths: main with --in-dir, upload_file on a ZIP archive, the
   multi-file run of the Streamlit page *)

MaxFiles == 3      \* documents per batch

\* a file of the batch: whether yaml.safe_load accepts it, and the document
YamlFile(doc) == [parses |-> TRUE, doc |-> doc]
BadYaml == [parses |-> FALSE, doc |-> NoResult.d]

OneCell(cell) ==
    [cells |-> <<cell>>, defaultDataConnectionId |-> DefaultId1,
     sharedAssets |-> NoSharedAssets]

FilePool ==
    {BadYaml,
     YamlFile(NoResult.d),
     YamlFile(OneCell([NoCell EXCEPT !.type = "DATA",
                                     !.data = SqlData(DefaultId2, QStaging)])),
     YamlFile(OneCell([NoCell EXCEPT !.type = "INPUT",
                                     !.data = InputData("BOOLEAN", PyTrue)])),
     YamlFile(OneCell([NoCell EXCEPT !.data = SqlData(RS, QPlain)]))}

\* does load_yaml, transform_hex_yaml, save_yaml raise on the file: the
\* batch paths pass the target id and leave the source ids to the default
FileRaises(file, map) ==
    \/ ~file.parses
    \/ transform_hex_yaml(file.doc, DBX, Omitted, map).raised

\* a batch run has reached its loop over the documents
InitBatch ==
    /\ SCHEMA_MAP \in SchemaMaps
    /\ batchMode \in {"cli", "zip", "streamlit"}
    /\ files \in SeqUpTo(FilePool, MaxFiles)
    /\ fileAt = 1
    /\ converted = {}
    /\ errors = {}
    /\ bpc = "loop"
    /\ IdleDoc
    /\ IdleSql
    /\ IdleLoad
    /\ IdleScan
    /\ IdlePar

\* one iteration of  for name in os.listdir(args.in_dir)  in main: the call
\* of process_file stands in no try block, what it raises leaves main
CliFile ==
    /\ bpc = "loop"
    /\ batchMode = "cli"
    /\ fileAt <= Len(files)
    /\ IF FileRaises(files[fileAt], SCHEMA_MAP)
       THEN bpc' = "terminated" /\ UNCHANGED <<fileAt, converted>>
       ELSE /\ converted' = converted \cup {fileAt}
            /\ fileAt' = fileAt + 1
            /\ bpc' = bpc
    /\ UNCHANGED <<SCHEMA_MAP, docVars, sqlVars, loadVars, batchMode, files, errors, scanVars, parVars>>

\* a file of the loop as the two web paths run it: try ... except
\* Exception, the failure goes to the log and the loop goes on
CaughtFile(mode) ==
    /\ bpc = "loop"
    /\ batchMode = mode
    /\ fileAt <= Len(files)
    /\ IF FileRaises(files[fileAt], SCHEMA_MAP)
       THEN errors' = errors \cup {fileAt} /\ UNCHANGED converted
       ELSE converted' = converted \cup {fileAt} /\ UNCHANGED errors
    /\ fileAt' = fileAt + 1
    /\ UNCHANGED <<SCHEMA_MAP, docVars, sqlVars, loadVars, batchMode, files, bpc, scanVars, parVars>>

\* one iteration of the loop over the YAML files of the archive in upload_file
ZipFile == CaughtFile("zip")

\* one iteration of  for i, file_name in enumerate(file_names)
StreamlitFile == CaughtFile("streamlit")

\* the loop is over
BatchEnd ==
    /\ bpc = "loop"
    /\ fileAt > Len(files)
    /\ bpc' = "finished"
    /\ UNCHANGED <<SCHEMA_MAP, docVars, sqlVars, loadVars, batchMode, files, fileAt,
                   converted, errors, scanVars, parVars>>

NextBatch == CliFile \/ ZipFile \/ StreamlitFile \/ BatchEnd

SpecBatch == InitBatch /\ [][NextBatch]_vars

\* ---------------------------------------------------------------------------
\* replace_dateadd and replace_datediff, one loop iteration per step
\* ---------------------------------------------------------------------------

MaxArgs == 4       \* arguments of the call in the scanned text

\* a DATEADD call inside an argument
InnerCall == CallText("DATEADD", <<>>, "day", <<"2">>, <<"y">>, <<" ">>)

ArgPool == {<<"day">>, <<"5">>, FCall, InnerCall}

\* ", ".join(args)
RECURSIVE JoinArgs(_)
JoinArgs(list) ==
    IF list = <<>> THEN <<>>
    ELSE IF Len(list) = 1 THEN list[1]
    ELSE list[1] \o <<",", " ">> \o JoinArgs(Tail(list))

\* the inputs: one call of the given name with the given arguments, with or
\* without its closing parenthesis, alone or inside a select
ScanCases ==
    [name : {"DATEADD", "datediff"},
     args : SeqUpTo(ArgPool, MaxArgs),
     closed : BOOLEAN,
     framed : BOOLEAN]

Before(c) == IF c.framed THEN <<"select", " ">> ELSE <<>>

After(c) == IF c.framed THEN <<" ", "from", " ", "t">> ELSE <<>>

TextOf(c) ==
    Before(c) \o <<c.name, "(">> \o JoinArgs(c.args)
        \o (IF c.closed THEN <<")">> ELSE <<>>) \o After(c)

\* what one iteration of  while i < len(text)  finds from i = at: the match
\* of the pattern and the walk to the closing parenthesis
Match(text, at, name) ==
    LET start_pos == FindCall(text, at, name)
        paren_pos == SkipWs(text, start_pos + 1)
        c == CloseFrom(text, paren_pos + 1, 1)
    IN  [start_pos |-> start_pos,
         paren_pos |-> paren_pos,
         j |-> c.j,
         paren_count |-> c.paren_count]

InitScan ==
    /\ SCHEMA_MAP = HardcodedSchemaMap
    /\ scanName \in {"dateadd", "datediff"}
    /\ scanCase \in ScanCases
    /\ scanText = TextOf(scanCase)
    /\ scanAt = 1
    /\ scanResult = <<>>
    /\ scanArgs = <<>>
    /\ spc = "loop"
    /\ IdleDoc
    /\ IdleSql
    /\ IdleLoad
    /\ IdleBatch
    /\ IdlePar

\* if not match: the rest of the text goes to the result and the loop is left
ScanRest ==
    /\ spc = "loop"
    /\ scanAt <= Len(scanText)
    /\ \E m \in {Match(scanText, scanAt, scanName)} : m.start_pos = 0
    /\ scanResult' = scanResult \o SubSeq(scanText, scanAt, Len(scanText))
    /\ spc' = "done"
    /\ UNCHANGED <<SCHEMA_MAP, docVars, sqlVars, loadVars, batchVars,
                   scanName, scanCase, scanText, scanAt, scanArgs, parVars>>

\* if paren_count == 0: the call is complete, its replacement (or the call
\* itself when it has fewer than three arguments) goes to the result, i = j
ScanCall ==
    /\ spc = "loop"
    /\ scanAt <= Len(scanText)
    /\ \E m \in {Match(scanText, scanAt, scanName)} :
          /\ m.start_pos # 0
          /\ m.paren_count = 0
          /\ \E inner \in {SubSeq(scanText, m.paren_pos + 1, m.j - 2)} :
                \E list \in {SplitArgs(inner, 1, 0, <<>>)} :
                   /\ scanArgs' = list
                   /\ scanResult' =
                          scanResult \o SubSeq(scanText, scanAt, m.start_pos - 1)
                              \o (IF Len(list) >= 3
                                  THEN (IF scanName = "dateadd"
                                        THEN dateadd_replacement(list)
                                        ELSE datediff_replacement(list))
                                  ELSE SubSeq(scanText, m.start_pos, m.j - 1))
          /\ scanAt' = m.j
    /\ UNCHANGED <<SCHEMA_MAP, docVars, sqlVars, loadVars, batchVars,
                   scanName, scanCase, scanText, spc, parVars>>

\* the position stays at the match
ScanUnclosedStays ==
    /\ spc = "loop"
    /\ scanAt <= Len(scanText)
    /\ \E m \in {Match(scanText, scanAt, scanName)} :
          /\ m.start_pos # 0
          /\ m.paren_count # 0
          /\ scanAt' = m.start_pos
          /\ UNCHANGED scanResult
    /\ UNCHANGED <<SCHEMA_MAP, docVars, sqlVars, loadVars, batchVars,
                   scanName, scanCase, scanText, scanArgs, spc, parVars>>

\* else: the parentheses never close, the matched name and parenthesis go to
\* the result and the scan goes on behind the parenthesis
ScanUnclosed ==
    /\ spc = "loop"
    /\ scanAt <= Len(scanText)
    /\ \E m \in {Match(scanText, scanAt, scanName)} :
          /\ m.start_pos # 0
          /\ m.paren_count # 0
          /\ scanResult' =
                 scanResult \o SubSeq(scanText, scanAt, m.start_pos - 1)
                     \o SubSeq(scanText, m.start_pos, m.paren_pos)
          /\ scanAt' = m.paren_pos + 1
    /\ UNCHANGED <<SCHEMA_MAP, docVars, sqlVars, loadVars, batchVars,
                   scanName, scanCase, scanText, scanArgs, spc, parVars>>

\* i < len(text) is false: return ''.join(result)
ScanEnd ==
    /\ spc = "loop"
    /\ scanAt > Len(scanText)
    /\ spc' = "done"
    /\ UNCHANGED <<SCHEMA_MAP, docVars, sqlVars, loadVars, batchVars,
                   scanName, scanCase, scanText, scanAt, scanResult, scanArgs, parVars>>

NextScan == ScanRest \/ ScanCall \/ ScanUnclosed \/ ScanEnd

SpecScan == InitScan /\ [][NextScan]_vars

\* the loop is sequential code: an iteration that can run does run
SpecScanFair == SpecScan /\ WF_vars(NextScan)

\* ---------------------------------------------------------------------------
\* concurrent calls of transform_hex_yaml (the requests of the web
\* application run in threads of one process and share the module globals)
\* ---------------------------------------------------------------------------

Workers == {"a", "b"}

ParCells ==
    { [NoCell EXCEPT !.type = "SQL", !.data = SqlData(RS, QLegacy)],
      [NoCell EXCEPT !.type = "DATA", !.data = SqlData(DefaultId2, QStaging)],
      [NoCell EXCEPT !.type = "INPUT", !.data = InputData("BOOLEAN", PyTrue)],
      [NoCell EXCEPT !.data = SqlData(RS, QPlain)] }

ParDocs ==
    { [cells |-> cs, defaultDataConnectionId |-> DefaultId1,
       sharedAssets |-> NoSharedAssets] : cs \in SeqUpTo(ParCells, MaxDocCells) }

ParArgs == {Omitted, Given({RS})}

\* the locals of a call that has not started
NewWorker(ref, arg) ==
    [docRef |-> ref, dRef |-> 0, srcArg |-> arg, redshift_conn_ids |-> {},
     i |-> 1, rewrote_cells |-> 0, pc |-> "start"]

InitPar ==
    /\ SCHEMA_MAP \in SchemaMaps
    /\ \E da \in ParDocs, db \in ParDocs, xa \in ParArgs, xb \in ParArgs :
          /\ objects = <<da, db>>
          /\ workers = [w \in Workers |->
                           IF w = "a" THEN NewWorker(1, xa) ELSE NewWorker(2, xb)]
    /\ IdleDoc
    /\ IdleSql
    /\ IdleLoad
    /\ IdleBatch
    /\ IdleScan

\* entry of transform_hex_yaml in thread w: the copy, the source set
ParCall(w) ==
    /\ workers[w].pc = "start"
    /\ LET c == deepcopy(objects, workers[w].docRef)
       IN  /\ objects' = c.heap
           /\ workers' = [workers EXCEPT
                             ![w].dRef = c.ref,
                             ![w].redshift_conn_ids = ResolveSourceIds(workers[w].srcArg),
                             ![w].pc = "loop"]
    /\ UNCHANGED <<SCHEMA_MAP, docVars, sqlVars, loadVars, batchVars, scanVars>>

\* the iteration writes the mapping table
ParCellWritesMap(w) ==
    /\ workers[w].pc = "loop"
    /\ workers[w].i <= Len(objects[workers[w].dRef].cells)
    /\ ~CellRaisesAt(objects[workers[w].dRef].cells[workers[w].i],
                     workers[w].redshift_conn_ids, SCHEMA_MAP)
    /\ LET st == CellStep(objects[workers[w].dRef].cells[workers[w].i], DBX,
                          workers[w].redshift_conn_ids, SCHEMA_MAP)
       IN  /\ objects' = [objects EXCEPT ![workers[w].dRef].cells[workers[w].i] = st.cell]
           /\ workers' = [workers EXCEPT
                             ![w].rewrote_cells = @ + st.add,
                             ![w].i = @ + 1]
    /\ SCHEMA_MAP' = HardcodedSchemaMap
    /\ UNCHANGED <<docVars, sqlVars, loadVars, batchVars, scanVars>>

\* one iteration of  for cell in d.get("cells", [])  in thread w
ParCell(w) ==
    /\ workers[w].pc = "loop"
    /\ workers[w].i <= Len(objects[workers[w].dRef].cells)
    /\ ~CellRaisesAt(objects[workers[w].dRef].cells[workers[w].i],
                     workers[w].redshift_conn_ids, SCHEMA_MAP)
    /\ LET st == CellStep(objects[workers[w].dRef].cells[workers[w].i], DBX,
                          workers[w].redshift_conn_ids, SCHEMA_MAP)
       IN  /\ objects' = [objects EXCEPT ![workers[w].dRef].cells[workers[w].i] = st.cell]
           /\ workers' = [workers EXCEPT
                             ![w].rewrote_cells = @ + st.add,
                             ![w].i = @ + 1]
    /\ UNCHANGED <<SCHEMA_MAP, docVars, sqlVars, loadVars, batchVars, scanVars>>

\* an iteration that raises in thread w
ParCellRaises(w) ==
    /\ workers[w].pc = "loop"
    /\ workers[w].i <= Len(objects[workers[w].dRef].cells)
    /\ CellRaisesAt(objects[workers[w].dRef].cells[workers[w].i],
                    workers[w].redshift_conn_ids, SCHEMA_MAP)
    /\ objects' = [objects EXCEPT ![workers[w].dRef].cells[workers[w].i] =
                      IF cell_type(@) = Absent
                      THEN @
                      ELSE update_connection(@, DBX)]
    /\ workers' = [workers EXCEPT ![w].pc = "raised"]
    /\ UNCHANGED <<SCHEMA_MAP, docVars, sqlVars, loadVars, batchVars, scanVars>>

\* after the loop in thread w: default connection, shared assets, return
ParFinish(w) ==
    /\ workers[w].pc = "loop"
    /\ workers[w].i > Len(objects[workers[w].dRef].cells)
    /\ objects' = [objects EXCEPT ![workers[w].dRef] =
                      update_shared_assets(
                          update_default(@, DBX, workers[w].redshift_conn_ids),
                          DBX, workers[w].redshift_conn_ids)]
    /\ workers' = [workers EXCEPT ![w].pc = "done"]
    /\ UNCHANGED <<SCHEMA_MAP, docVars, sqlVars, loadVars, batchVars, scanVars>>

NextPar ==
    \E w \in Workers :
        ParCall(w) \/ ParCell(w) \/ ParCellRaises(w) \/ ParFinish(w)

SpecPar == InitPar /\ [][NextPar]_vars

-----------------------------------------------------------------------------
(* Vocabulary of the properties *)

Done == pc = "done"

\* the document the current run works on and, once Done, has returned
Out == heap[dRef]

CellIdx == 1..Len(original.cells)

\* the cell type, compared case-insensitively
TypeIsSql(c) == Upper(cell_type(c)) \in {"DATA", "SQL"}
TypeIsOther(c) == Upper(cell_type(c)) \notin {"INPUT", "DATA", "SQL"}

\* the eligibility rule as the specification words it, on the source set in
\* force: "no source set" is the empty set (an omitted argument selects the
\* built-in default set)
EligibleByRule(c) ==
    \/ ConnIdOf(c) \in redshift_conn_ids
    \/ /\ redshift_conn_ids = {}
       /\ IsStr(QueryOf(c))
       /\ LegacyHeuristic(QueryOf(c))

\* the connection ids a cell stores, place by place
ConnIds(c) == <<c.dataConnectionId, c.data.dataConnectionId, c.config.dataConnectionId>>

-----------------------------------------------------------------------------
\* C1: transform_hex_yaml never mutates the caller's document: in every state
\* of a call (also one that raises) the caller's document has the value it had
\* when the call began.
C1_CallerDocumentUnchanged == heap[docRef] = original

\* a finished call whose working copy differs from the caller's document
C1_Witness == Done /\ dRef # docRef /\ Out # original /\ rewrote_cells > 0

\* C2: a DATA/SQL cell is processed only if its connection id is in the source
\* set or, with no source set in force, its text matches the legacy heuristic;
\* every other DATA/SQL cell is identical in the returned document.
C2_OnlyEligibleCellsRewritten ==
    Done =>
        /\ \A k \in processed : EligibleByRule(original.cells[k])
        /\ \A k \in CellIdx :
              (TypeIsSql(original.cells[k]) /\ ~EligibleByRule(original.cells[k]))
                  => Out.cells[k] = original.cells[k]

\* with no source set in force, one cell was rewritten on the heuristic and
\* another DATA/SQL cell was not eligible
C2_Witness ==
    /\ Done
    /\ redshift_conn_ids = {}
    /\ \E k \in processed : Out.cells[k] # original.cells[k]
    /\ \E k \in CellIdx :
          TypeIsSql(original.cells[k]) /\ ~EligibleByRule(original.cells[k])

\* C3 (as claimed): the returned count is the number of DATA/SQL cells that
\* satisfied the eligibility rule, a cell without query text included.
C3_CountIsEligibleCells ==
    Done =>
        ret.n = Cardinality({k \in CellIdx :
                    TypeIsSql(original.cells[k]) /\ EligibleByRule(original.cells[k])})

\* C3 (amended): the returned count is the number of eligible DATA/SQL cells
\* whose query text is a string; INPUT cells and other types never add to it.
C3_CountIsRewrittenTexts ==
    Done =>
        ret.n = Cardinality({k \in CellIdx :
                    /\ TypeIsSql(original.cells[k])
                    /\ EligibleByRule(original.cells[k])
                    /\ IsStr(QueryOf(original.cells[k]))})

\* two eligible cells, one of them without query text, and a count of one
C3_Witness ==
    /\ Done
    /\ ret.n = 1
    /\ Cardinality({k \in CellIdx :
           TypeIsSql(original.cells[k]) /\ EligibleByRule(original.cells[k])}) = 2

\* C4 (as claimed): after the call the connection id of every eligible cell,
\* read as the eligibility rule reads it (payload first, then cell level), is
\* the target id.
C4_EligibleCellOnTarget ==
    Done =>
        \A k \in CellIdx :
            ( /\ TypeIsSql(original.cells[k])
              /\ EligibleByRule(original.cells[k])
              /\ ConnIdOf(original.cells[k]) # Absent )
                => ConnIdOf(Out.cells[k]) = databricks_conn_id

\* C5 (as claimed): after a second run on the first run's output no connection
\* id differs from the first run's, and no cell that carried the target id
\* after the first run was processed again.
C5_SecondRunLeavesTargetCells ==
    (Done /\ run = 2) =>
        /\ \A k \in CellIdx : ConnIds(Out.cells[k]) = ConnIds(first.d.cells[k])
        /\ \A k \in CellIdx :
              ConnIdOf(first.d.cells[k]) = databricks_conn_id => k \notin processed

\* C5 (amended): after a second run no connection id differs from the first
\* run's; and when the source set in force is not empty and does not hold the
\* target id, a cell whose connection id is the target id is not processed
\* again and is left as the first run returned it.
C5_SecondRunKeepsConnectionIds ==
    (Done /\ run = 2) =>
        /\ \A k \in CellIdx : ConnIds(Out.cells[k]) = ConnIds(first.d.cells[k])
        /\ (redshift_conn_ids # {} /\ databricks_conn_id \notin redshift_conn_ids)
              => \A k \in CellIdx :
                    ConnIdOf(first.d.cells[k]) = databricks_conn_id
                        => k \notin processed /\ Out.cells[k] = first.d.cells[k]

\* a second run over a cell the first run rewrote and moved to the target id
C5_Witness ==
    /\ Done /\ run = 2
    /\ first.n > 0
    /\ redshift_conn_ids # {} /\ databricks_conn_id \notin redshift_conn_ids
    /\ \E k \in CellIdx :
          /\ ConnIdOf(first.d.cells[k]) = databricks_conn_id
          /\ k \notin processed

\* what the claim says an INPUT cell becomes, with the default value
\* stringified for the values in `stringified`
InputAfter(c, stringified) ==
    IF Payload(c).inputType \in {"BOOLEAN", "TOGGLE", "CHECKBOX"}
    THEN SetPayload(c,
            [Payload(c) EXCEPT
                !.inputType = "TEXT",
                !.defaultValue =
                    IF @ \in stringified
                    THEN (IF @ \in {PyTrue, Py1} THEN "true" ELSE "false")
                    ELSE @])
    ELSE c

InputCellsNotCounted ==
    /\ \A k \in processed : cell_type(original.cells[k]) # "INPUT"
    /\ ret.n <= Cardinality({k \in CellIdx : cell_type(original.cells[k]) # "INPUT"})

C7_OtherTypesSkipped ==
    Done =>
        /\ \A k \in CellIdx :
              TypeIsOther(original.cells[k])
                  => Out.cells[k] = original.cells[k] /\ k \notin processed
        /\ ret.n <= Cardinality({k \in CellIdx : TypeIsSql(original.cells[k])})

\* a cell of another type that holds a source connection id, beside a cell
\* that was rewritten
C7_Witness ==
    /\ Done
    /\ processed # {}
    /\ \E k \in CellIdx :
          /\ TypeIsOther(original.cells[k])
          /\ ConnIdOf(original.cells[k]) \in redshift_conn_ids

\* C8: a call that omits the source-connection set ends as the call with the
\* three built-in ids does: same returned document and count, or both raise.
C8_OmittedIsDefaultSet ==
    (run = 1 /\ pc \in {"done", "raised"} /\ ~srcArg.given) =>
        LET r == transform_hex_yaml(original, databricks_conn_id,
                                    Given({DefaultId1, DefaultId2, DefaultId3}),
                                    SCHEMA_MAP)
        IN  /\ r.raised = (pc = "raised")
            /\ Done => (r.d = ret.d /\ r.n = ret.n)

\* a call without the argument that rewrote a cell on a built-in id
C8_Witness ==
    /\ Done /\ run = 1 /\ ~srcArg.given
    /\ \E k \in processed :
          /\ ConnIdOf(original.cells[k]) = DefaultId2
          /\ Out.cells[k] # original.cells[k]

\* C9: the document-level default connection id is replaced (by the target
\* id) only if no source set is in force or its value is in the source set; in
\* every other case, the key being absent included, it is unchanged.
C9_DefaultConnectionId ==
    Done =>
        LET old == original.defaultDataConnectionId
            allowed == old # Absent /\ (redshift_conn_ids = {} \/ old \in redshift_conn_ids)
        IN  /\ Out.defaultDataConnectionId \in {old, databricks_conn_id}
            /\ ~allowed => Out.defaultDataConnectionId = old

\* a source set is in force, the default id is not in it and stays, while a
\* cell on a source id was processed
C9_Witness ==
    /\ Done /\ run = 1
    /\ redshift_conn_ids # {}
    /\ original.defaultDataConnectionId = PG
    /\ Out.defaultDataConnectionId = PG
    /\ processed # {}

HasTarget(conns) ==
    \E k \in 1..Len(conns) : conns[k].dataConnectionId = databricks_conn_id

SourceEntries(conns) ==
    {k \in 1..Len(conns) : conns[k].dataConnectionId \in redshift_conn_ids}

\* conns with entry k replaced by the target id, nothing else moved
ReplacedAt(conns, out, k) ==
    /\ Len(out) = Len(conns)
    /\ out[k].dataConnectionId = databricks_conn_id
    /\ \A j \in 1..Len(conns) : j # k => out[j] = conns[j]

\* conns with the target id appended
AppendedTo(conns, out) ==
    /\ Len(out) = Len(conns) + 1
    /\ out[Len(out)].dataConnectionId = databricks_conn_id
    /\ \A j \in 1..Len(conns) : out[j] = conns[j]

\* C10: sharedAssets.dataConnections is unchanged if it holds the target id;
\* else, with a source set in force, its first entry on a source id is replaced
\* in place by the target id, or the target id is appended when no entry is on
\* a source id; with no source set in force the first entry is replaced, or the
\* target id appended to an empty list.
C10_SharedAssetConnections ==
    (Done /\ original.sharedAssets.has /\ original.sharedAssets.hasDataConnections) =>
        LET conns == original.sharedAssets.dataConnections
            out == Out.sharedAssets.dataConnections
        IN  IF HasTarget(conns) THEN out = conns
            ELSE IF redshift_conn_ids # {}
            THEN (IF SourceEntries(conns) # {}
                  THEN \E k \in SourceEntries(conns) :
                          /\ \A j \in SourceEntries(conns) : k <= j
                          /\ ReplacedAt(conns, out, k)
                  ELSE AppendedTo(conns, out))
            ELSE (IF Len(conns) > 0
                  THEN ReplacedAt(conns, out, 1)
                  ELSE AppendedTo(conns, out))

\* a source set is in force and the first entry on a source id is the second
\* entry of the list
C10_Witness ==
    /\ Done /\ run = 1
    /\ redshift_conn_ids # {}
    /\ LET conns == original.sharedAssets.dataConnections
       IN  /\ Len(conns) = 2
           /\ ~HasTarget(conns)
           /\ conns[1].dataConnectionId \notin redshift_conn_ids
           /\ conns[2].dataConnectionId \in redshift_conn_ids
           /\ Out.sharedAssets.dataConnections[2].dataConnectionId = databricks_conn_id
           /\ Out.sharedAssets.dataConnections[1] = conns[1]

\* the passes of SpecSql, taken one by one, end as apply_sql_rewrites does
StepsAgree ==
    /\ stage = "returned" =>
          apply_sql_rewrites(sqlArg, SCHEMA_MAP) = [raised |-> FALSE, out |-> outText]
    /\ stage = "raised" => apply_sql_rewrites(sqlArg, SCHEMA_MAP).raised

\* C11 (as claimed): in the returned document each text field (`query`,
\* `source`) of a processed cell's payload holds apply_sql_rewrites of the
\* input text of that same field, never the rewrite of the other field's text.
C11_FieldHoldsOwnRewrite ==
    Done =>
        \A k \in processed :
            LET p0 == Payload(original.cells[k])
                p1 == Payload(Out.cells[k])
            IN  /\ IsStr(p0.query)
                      => p1.query = apply_sql_rewrites(p0.query, SCHEMA_MAP).out
                /\ IsStr(p0.source)
                      => p1.source = apply_sql_rewrites(p0.source, SCHEMA_MAP).out

-----------------------------------------------------------------------------
(* Vocabulary of the properties of the rewrite pipeline *)

\* apply_sql_rewrites has returned / has raised
Returned == stage = "returned"
Raised == stage = "raised"

\* rewrite_schema_qualification has just returned: outText is its value,
\* SchemaInput the text it was called on
AfterSchema == stage = "csv"
SchemaInput == auto_fix_databricks_issues(sqlArg)

PairMode == ~IsTableFormat(SCHEMA_MAP)

\* a text of plain words: no qualified name, no function, type or idiom the
\* passes know, nothing a warning is raised for
PlainTokens == {"select", " ", "\n", ",", "a", "from", "t", "1"}
NoRecognizedPattern(text) == \A k \in 1..Len(text) : text[k] \in PlainTokens

\* no qualified name of the text is a key of the mapping
AllUnmapped(text, map) ==
    IF IsTableFormat(map)
    THEN \A n \in 1..Len(map.table) :
            \A k \in 1..Len(text) : ~MatchAt(text, k, map.table[n].src)
    ELSE /\ \A k \in 1..Len(text) :
               IsQualified3(text, k)
                   => ~PairMapped(map, Lower(text[k]), Lower(text[k + 2]))
         /\ \A k \in 1..Len(text) :
               IsProdUnderscore(text[k]) => ~PairMapped(map, "prod", Lower(text[k]))

\* one pass over the text in which, at each place, the longest key that
\* matches there is replaced by its target and the inserted target is not
\* matched again (entries: longest key first)
RECURSIVE LongestFirst(_, _, _)
LongestFirst(text, k, entries) ==
    IF k > Len(text) THEN <<>>
    ELSE IF \E n \in 1..Len(entries) : MatchAt(text, k, entries[n].src)
         THEN LET n == CHOOSE x \in 1..Len(entries) :
                          /\ MatchAt(text, k, entries[x].src)
                          /\ \A y \in 1..(x - 1) : ~MatchAt(text, k, entries[y].src)
              IN  entries[n].dst
                      \o LongestFirst(text, k + Len(entries[n].src), entries)
         ELSE <<text[k]>> \o LongestFirst(text, k + 1, entries)

\* the places of the text that hold the keyword QUALIFY itself (not a comment
\* that names it)
QualifyKeywords(text) == {k \in 1..Len(text) : Lower(text[k]) = "qualify"}

\* the QUALIFY header blocks of the text
QualifyHeaders(text) == {k \in 1..Len(text) : text[k] = QualifyHeader}

\* C12 (as claimed): apply_sql_rewrites never raises and what it returns is a
\* string, under the schema-pair mapping (the built-in default) and under a
\* full-table-name mapping.
C12_RewriteIsTotal == ~Raised /\ (Returned => IsStr(outText))

\* C13 (as claimed): on a text that holds no recognized pattern
\* apply_sql_rewrites returns the text unchanged, under either mapping.
C13_IdentityOnPlainText ==
    (NoRecognizedPattern(sqlArg) /\ (Returned \/ Raised))
        => (Returned /\ outText = sqlArg)

\* C14 (as claimed): in schema-pair mode rewrite_schema_qualification returns
\* the text with every mapped db.schema.rest replaced by catalog.schema.rest
\* (catalog.rest for the wildcard or a missing target schema) and every
\* unmapped name left as it is; prod.raw_github.repos gives
\* source.github.repos.
C14_PairModeRewrite ==
    (AfterSchema /\ PairMode) =>
        /\ outText = PairSubstitution(SchemaInput, SCHEMA_MAP)
        /\ sqlArg = QGithub
              => outText = SelectFrom \o <<"source", ".", "github", ".", "repos">>

\* C15 (as claimed): on a text whose qualified names are all unmapped
\* rewrite_schema_qualification returns the text unchanged, in schema-pair
\* mode and in full-table-name mode.
C15_UnmappedPassThrough ==
    (AfterSchema /\ AllUnmapped(SchemaInput, SCHEMA_MAP)) => outText = SchemaInput

\* C16 (as claimed): in full-table-name mode the longest key is applied
\* first, so an occurrence of staging.orders becomes exactly the target of
\* staging.orders (and an occurrence of orders alone the target of orders).
C16_LongestKeyWins ==
    (AfterSchema /\ ~PairMode) =>
        outText = LongestFirst(SchemaInput, 1, SortedMappings(SCHEMA_MAP.table))

\* rewrite_complex_functions has returned outText for sqlArg
Rewritten == stage = "rewritten"

\* the text in lower case without its white space
Squeeze(text) == LowerText(SelectSeq(text, LAMBDA t : ~IsSpace(t)))

\* a literal negative integer, and the same without its sign
NegativeInteger(n) == n[1] = "-" /\ IsDigits(n[Len(n)])
WithoutSign(n) == <<n[Len(n)]>>

\* C17 (as claimed): the rewrite of a DATEADD(unit, n, expr) call is
\* date_sub(expr, n without its sign) for the day unit and a literal negative
\* n, date_add(expr, n) for the day unit otherwise, date_add or date_sub with
\* n * 7 for the week unit, add_months(expr, n) for the month unit, and the
\* call in its own shape for every other unit; the returned text holds that
\* rewrite wherever the call stood.
C17_DateaddRewrite ==
    \A c \in DateaddCases :
        (Rewritten /\ sqlArg = CaseText(c)) =>
            LET unit == Lower(c.unit)
                n == c.arg2
                expr == c.arg3
            IN  CASE unit \in {"day", "days"} ->
                        IF NegativeInteger(n)
                        THEN Contains(outText, Call2("date_sub", expr, WithoutSign(n)))
                        ELSE Contains(outText, Call2("date_add", expr, n))
                  [] unit = "week" ->
                        \/ Contains(outText, Call2("date_add", expr, n \o Times7))
                        \/ /\ NegativeInteger(n)
                           /\ Contains(outText,
                                  Call2("date_sub", expr, WithoutSign(n) \o Times7))
                  [] unit = "month" -> Contains(outText, Call2("add_months", expr, n))
                  [] OTHER -> Contains(Squeeze(outText), Squeeze(CallOf(c)))

\* C18 (as claimed): the rewrite of a DATEDIFF(unit, a, b) call is
\* datediff(b, a) for the day unit, and for every other unit the call as it
\* was written, character for character; the returned text holds that
\* rewrite wherever the call stood.
C18_DatediffRewrite ==
    \A c \in DatediffCases :
        (Rewritten /\ sqlArg = CaseText(c)) =>
            IF Lower(c.unit) = "day"
            THEN Contains(outText, Call2("datediff", c.arg3, c.arg2))
            ELSE Contains(outText, CallOf(c))

\* C19 (as claimed): when the returned text holds a QUALIFY clause that was
\* not converted, it holds exactly one QUALIFY header block, whatever else
\* the text holds.
C19_OneHeaderPerUnconvertedQualify ==
    (Returned /\ QualifyKeywords(outText) # {})
        => Cardinality(QualifyHeaders(outText)) = 1

\* the source of a loader is missing, or it is there and cannot be read
SourceMissing == csvFile.status = "missing"
SourceUnreadable == csvFile.status \in {"denied", "undecodable"}

\* the first line of the file holds neither recognized header set (a file
\* without lines has no header at all)
NeitherHeaderSet ==
    /\ csvFile.status = "text"
    /\ \/ csvFile.lines = <<>>
       \/ /\ ~(HasField(csvFile.lines[1], RedshiftTable)
                 /\ HasField(csvFile.lines[1], DatabricksTable))
          /\ ~(HasField(csvFile.lines[1], RedshiftDatabase)
                 /\ HasField(csvFile.lines[1], RedshiftSchema))

\* no line of the file holds the marker header row
NoMarkerRow ==
    /\ csvFile.status = "text"
    /\ \A k \in 1..Len(csvFile.lines) : ~Contains(csvFile.lines[k], MarkerHeader)

LoaderReturned(fn) == loading = fn /\ lpc = "returned"

\* C20: no loader raises, whatever the file; load_schema_mappings returns the
\* built-in default table when the source is missing, unreadable or has
\* neither recognized header set, and load_function_mappings returns an
\* empty mapping when the source is missing, unreadable or has no marker
\* header row.
C20_LoadFailuresNotFatal ==
    /\ lpc # "raised"
    /\ (LoaderReturned("schema")
          /\ (SourceMissing \/ SourceUnreadable \/ NeitherHeaderSet))
            => SCHEMA_MAP = get_hardcoded_schema_map
    /\ (LoaderReturned("function")
          /\ (SourceMissing \/ SourceUnreadable \/ NoMarkerRow))
            => FUNCTION_MAPPINGS = <<>>

\* load_schema_mappings has returned the default table for a file that is
\* there and cannot be read: the second except clause has caught the error
C20_Witness ==
    /\ LoaderReturned("schema")
    /\ SourceUnreadable
    /\ exc \in {"PermissionError", "UnicodeDecodeError"}
    /\ SCHEMA_MAP = get_hardcoded_schema_map

\* C21 (as claimed): in every batch path a document that raises is caught,
\* logged and skipped, and every other document of the batch is processed;
\* no document ends the run.
C21_NoDocumentEndsTheBatch ==
    /\ bpc # "terminated"
    /\ bpc = "finished" =>
          \A k \in 1..Len(files) :
              IF FileRaises(files[k], SCHEMA_MAP)
              THEN k \in errors /\ k \notin converted
              ELSE k \in converted

\* the stages of apply_sql_rewrites by their kind
SchemaStage == "schema"
FunctionStages == {"auto_fix", "csv", "comprehensive", "simple", "complex"}
WarningStages == {"inline", "headers"}

\* a step in which the stage `stage` runs
StageRuns == stage' # stage

\* C22 (as claimed): the stages run in one fixed order, schema rewriting
\* first, then the function rewrites, then inline warnings, then the header
\* blocks: schema rewriting follows no other stage, a function rewrite is
\* followed by a function rewrite or by the inline warnings.
C22_SchemaThenFunctionsThenWarnings ==
    [][StageRuns =>
          /\ stage' # SchemaStage
          /\ stage \in FunctionStages => stage' \in FunctionStages \cup {"inline", "raised"}
          /\ stage = "inline" => stage' = "headers"
          /\ stage = "headers" => stage' = "returned"]_vars

\* the order of the stages in apply_sql_rewrites
StageOrder ==
    <<"auto_fix", "schema", "csv", "comprehensive", "simple", "complex", "inline",
      "headers", "returned">>

\* C22 (amended): the stages run in the fixed order auto-fix, schema
\* rewriting, tabular mapping, comprehensive mapping, simple rewrites, complex
\* rewrites, inline warnings, header blocks, each on the output of the one
\* before; a call ends before its return only by raising.
C22_FixedStageOrder ==
    [][StageRuns =>
          \/ \E k \in 1..(Len(StageOrder) - 1) :
                stage = StageOrder[k] /\ stage' = StageOrder[k + 1]
          \/ stage' = "raised"]_vars

\* a call under a table mapping has returned a text that the auto-fix and
\* the schema rewriting have both changed
C22_Witness ==
    /\ Returned
    /\ ~PairMode
    /\ auto_fix_databricks_issues(sqlArg) # sqlArg
    /\ rewrite_schema_qualification(sqlArg, SCHEMA_MAP) # sqlArg
    /\ outText = apply_sql_rewrites(sqlArg, SCHEMA_MAP).out


\* the loop run step by step returns what the loop run at once returns
ScanStepsAgree ==
    spc = "done" => scanResult = ScanCalls(scanText, 1, scanName)

\* the scanner has handled the call of its input: a call of its own name
\* with balanced parentheses, at the start of the text or behind "select "
CallScanned ==
    /\ Lower(scanCase.name) = scanName
    /\ scanCase.closed
    /\ scanAt > 1

\* C23: for a call with balanced parentheses the scanner stops right behind
\* the parenthesis that closes the call, and the arguments it recovers are
\* the top-level arguments of the call, as many and each one whole, also
\* when an argument is a call with commas of its own
C23_TopLevelArguments ==
    CallScanned =>
        /\ scanAt = Len(scanText) - Len(After(scanCase)) + 1
        /\ scanArgs = scanCase.args

\* a call of four arguments, two of them calls with commas inside, scanned
C23_Witness ==
    /\ CallScanned
    /\ Len(scanCase.args) = MaxArgs
    /\ \E k \in DOMAIN scanCase.args : scanCase.args[k] = FCall
    /\ \E k \in DOMAIN scanCase.args : scanCase.args[k] = InnerCall
    /\ scanArgs = scanCase.args

\* load_schema_mappings went through the branch of the table header set, of
\* the pair header set
TableVariantLoaded ==
    /\ exc = "none"
    /\ HasField(fieldnames, RedshiftTable)
    /\ HasField(fieldnames, DatabricksTable)

PairVariantLoaded ==
    /\ exc = "none"
    /\ ~TableVariantLoaded
    /\ HasField(fieldnames, RedshiftDatabase)
    /\ HasField(fieldnames, RedshiftSchema)

KeysLowerCased(map) ==
    /\ \A k \in 1..Len(map.table) : map.table[k].src = LowerText(map.table[k].src)
    /\ \A e \in map.pairs : e.db = Lower(e.db) /\ e.sch = Lower(e.sch)

\* C24 (as claimed): after load_schema_mappings the mapping has keys of one
\* variant only, every key is lower-cased, and rewrite_schema_qualification
\* chooses the table mode exactly when the table variant was loaded, also
\* from a file with a recognized header and no data rows.
C24_ModeAgreesWithVariant ==
    LoaderReturned("schema") =>
        /\ SCHEMA_MAP.table = <<>> \/ SCHEMA_MAP.pairs = {}
        /\ KeysLowerCased(SCHEMA_MAP)
        /\ TableVariantLoaded => IsTableFormat(SCHEMA_MAP)
        /\ PairVariantLoaded => ~IsTableFormat(SCHEMA_MAP)

\* what the call of thread w returns when it runs with no other call
Alone(w) ==
    transform_hex_yaml(objects[workers[w].docRef], DBX, workers[w].srcArg,
                       SCHEMA_MAP)

\* no step writes a mapping table
MappingsReadOnly ==
    /\ SCHEMA_MAP' = SCHEMA_MAP
    /\ FUNCTION_MAPPINGS' = FUNCTION_MAPPINGS

\* no step writes the document a caller handed in
CallerDocumentsKept ==
    \A w \in DOMAIN workers :
        objects'[workers[w].docRef] = objects[workers[w].docRef]

\* C25: no step of a transform writes SCHEMA_MAP or FUNCTION_MAPPINGS, and
\* however the steps of two concurrent transforms interleave, each returns
\* the document and the count it returns when run alone (and raises exactly
\* when it raises alone), and leaves the caller's document as it was.
C25_ConcurrentTransformsIndependent ==
    /\ [][MappingsReadOnly /\ CallerDocumentsKept]_vars
    /\ [](\A w \in DOMAIN workers :
            /\ workers[w].pc = "done" =>
                   /\ ~Alone(w).raised
                   /\ objects[workers[w].dRef] = Alone(w).d
                   /\ workers[w].rewrote_cells = Alone(w).n
            /\ workers[w].pc = "raised" => Alone(w).raised)

\* one transform has returned after rewriting a cell while the other is
\* inside its loop
C25_Witness ==
    \E w \in DOMAIN workers, v \in DOMAIN workers :
        /\ workers[w].pc = "done"
        /\ workers[w].rewrote_cells > 0
        /\ workers[v].pc = "loop"

\* the source set of the call is not empty and does not hold the target id
SourcesWithoutTarget ==
    /\ ResolveSourceIds(srcArg) # {}
    /\ databricks_conn_id \notin ResolveSourceIds(srcArg)

\* the second run, on the document the first run returned, has returned
SecondRunReturned == run = 2 /\ pc = "done"

\* C26: with a non-empty source set that does not hold the target id, the
\* run of transform_hex_yaml on its own previous output counts 0 and returns
\* a document equal to that output: cells, default connection id and
\* shared assets (as claimed).
C26_SecondRunIsFixpoint ==
    (SecondRunReturned /\ SourcesWithoutTarget) =>
        /\ ret.n = 0
        /\ ret.d = first.d
        /\ ret.d = original

\* a call of the function `name` (written in lower case) whose first argument
\* is one of `units` stands in the text
CallRemains(text, name, units) ==
    \E k \in 1..Len(text) :
        LET paren_pos == SkipWs(text, k + 1)
        IN  /\ Lower(text[k]) = name
            /\ Tok(text, paren_pos) = "("
            /\ Lower(Tok(text, SkipWs(text, paren_pos + 1))) \in units

\* C27 (as claimed): the text rewrite_complex_functions returns holds no
\* DATEADD call of the day, week or month unit and no DATEDIFF call of the
\* day unit, wherever the call stood in the input, also inside an argument of
\* another DATEADD or DATEDIFF call.
C27_NoConvertibleCallRemains ==
    Rewritten =>
        /\ ~CallRemains(outText, "dateadd",
                        {"day", "days", "week", "weeks", "month", "months"})
        /\ ~CallRemains(outText, "datediff", {"day", "days"})

\* the scanner has returned
Scanned == spc = "done"

\* the call of the input is one of the scanner's name whose parentheses
\* never close
UnclosedCall == Lower(scanCase.name) = scanName /\ ~scanCase.closed

IsPrefix(p, text) == Len(p) <= Len(text) /\ SubSeq(text, 1, Len(p)) = p

IsSuffix(p, text) ==
    Len(p) <= Len(text) /\ SubSeq(text, Len(text) - Len(p) + 1, Len(text)) = p

\* an iteration that stays in the loop moves the position forward
PositionIncreases == (spc = "loop" /\ spc' = "loop") => scanAt' > scanAt

\* the text before and the text after the call of the input are in the
\* returned text, where they were
OutsideTextCopied ==
    /\ IsPrefix(Before(scanCase), scanResult)
    /\ IsSuffix(After(scanCase), scanResult)

AfterUnclosed(list) ==
    [k \in 1..Len(list) |->
        IF scanName = "dateadd" /\ list[k] = InnerCall
        THEN Call2("date_add", <<"y">>, <<"2">>)
        ELSE list[k]]

ReferenceAt(text, k, n, entries) ==
    /\ MatchAt(text, k, entries[n].src)
    /\ \A x \in 1..Len(entries) :
          Len(entries[x].src) > Len(entries[n].src) =>
              \A at \in 1..k :
                  ~(/\ MatchAt(text, at, entries[x].src)
                    /\ at + Len(entries[x].src) >= k + Len(entries[n].src))

\* C29 (as claimed): in table mode a reference is substituted once, by the
\* entry of the longest key that matches it, and the inserted target is not
\* rewritten by another entry: the returned text holds the target of that
\* entry as the mapping gives it.
C29_TargetNotRewrittenAgain ==
    (AfterSchema /\ ~PairMode) =>
        \A n \in 1..Len(SCHEMA_MAP.table) :
            (\E k \in 1..Len(SchemaInput) :
                 ReferenceAt(SchemaInput, k, n, SCHEMA_MAP.table))
                => Contains(outText, SCHEMA_MAP.table[n].dst)

\* the cell carries neither `type` nor `cellType`
Untyped(cell) == cell_type(cell) = Absent

\* C30 (as claimed): transform_hex_yaml does not raise on a cell that carries
\* neither `type` nor `cellType`: the cell is skipped, it is in the returned
\* document as it was, and the loop goes on to the cells behind it.
C30_UntypedCellSkipped ==
    pc \in {"loop", "done", "raised"} =>
        \A k \in 1..Len(original.cells) :
            Untyped(original.cells[k]) =>
                /\ ~(pc = "raised" /\ i = k)
                /\ pc = "done" => heap[dRef].cells[k] = original.cells[k]

====
